---- MODULE Spec2Model ----
(***************************************************************************)
(* A model of the core of psld: the perimeter-shooter simulator (sim.py),  *)
(* the lane-reachability ordering (backward_slots.py), the slots           *)
(* derivation (slots_from_top.py), the top rebalancer (top_rebalance.py,   *)
(* component_split.py) and the breadth-first solver (solver.py).           *)
(*                                                                         *)
(* A grid is a function from its cells <<x, y>> to a palette index or      *)
(* None; a mask is a function from its cells to BOOLEAN.                   *)
(***************************************************************************)
EXTENDS Integers, Sequences, FiniteSets, TLC

VARIABLES
    \* simulator: the two grids, the conveyor, the configuration, the last call
    top, slots, shooters, cfg, last,
    \* lane-reachability ordering: the mask, the order handed to the verifier,
    \* the verifier's outcome, the result of generate_backward_place_order
    mask, forder, verdict, bwd,
    \* rebalancer and slots derivation: the caller's grid, the working copy,
    \* the loop counter, the rebalancer's result, the derivation's result
    rtop, rcells, riters, rres, dres,
    \* solver: the level and the search limits, the queue, the prev map, the
    \* counter, the result of solve_level, and the number of solution actions
    \* replayed on the simulator
    lvl, q, prev, expanded, sres, replayed

simVars == <<top, slots, shooters, cfg, last>>
ordVars == <<mask, forder, verdict, bwd>>
rebVars == <<rtop, rcells, riters, rres, dres>>
solVars == <<lvl, q, prev, expanded, sres, replayed>>
vars == <<top, slots, shooters, cfg, last, mask, forder, verdict, bwd,
          rtop, rcells, riters, rres, dres, lvl, q, prev, expanded, sres, replayed>>

(***************************************************************************)
(* Bounds of the model.                                                    *)
(***************************************************************************)
SimW == 2
SimH == 2
NumColors == 2
MaxCapacity == 2

\* Python's None in a cell of a color grid.
None == -1

Colors == 0 .. (NumColors - 1)
Cells(w, h) == (0 .. (w - 1)) \X (0 .. (h - 1))
Grids(w, h, cols) == [Cells(w, h) -> cols \cup {None}]
Occupied(grid) == {p \in DOMAIN grid : grid[p] /= None}

SetMin(S) == CHOOSE m \in S : \A n \in S : m <= n
SetMax(S) == CHOOSE m \in S : \A n \in S : m >= n

(***************************************************************************)
(* sim.py                                                                  *)
(***************************************************************************)
Shooter(color, ammo, pos) == [color |-> color, ammo |-> ammo, pos |-> pos]

perimeter_len(w, h) == 2 * w + 2 * h

\* The (side, lane) of a perimeter index; side "error" is the ValueError.
pos_to_side_lane_bottom_forward(pos, w, h) ==
    IF ~(0 <= pos /\ pos < perimeter_len(w, h))
    THEN [side |-> "error", lane |-> 0]
    ELSE IF pos < w THEN [side |-> "top", lane |-> pos]
    ELSE IF pos - w < h THEN [side |-> "right", lane |-> pos - w]
    ELSE IF pos - w - h < w THEN [side |-> "bottom", lane |-> pos - w - h]
    ELSE [side |-> "left", lane |-> (h - 1) - (pos - w - h - w)]

pos_to_side_lane(pos, w, h) ==
    IF ~(0 <= pos /\ pos < perimeter_len(w, h))
    THEN [side |-> "error", lane |-> 0]
    ELSE IF pos < w THEN [side |-> "top", lane |-> pos]
    ELSE IF pos - w < h THEN [side |-> "right", lane |-> pos - w]
    ELSE IF pos - w - h < w THEN [side |-> "bottom", lane |-> (w - 1) - (pos - w - h)]
    ELSE [side |-> "left", lane |-> (h - 1) - (pos - w - h - w)]

\* The four extrema lists of the occupied slot cells (None where a lane is empty).
row_col_extrema(grid, w, h) ==
    LET xsOf(y) == {x \in 0 .. (w - 1) : grid[<<x, y>>] /= None}
        ysOf(x) == {y \in 0 .. (h - 1) : grid[<<x, y>>] /= None}
    IN  [row_min |-> [y \in 0 .. (h - 1) |-> IF xsOf(y) = {} THEN None ELSE SetMin(xsOf(y))],
         row_max |-> [y \in 0 .. (h - 1) |-> IF xsOf(y) = {} THEN None ELSE SetMax(xsOf(y))],
         col_min |-> [x \in 0 .. (w - 1) |-> IF ysOf(x) = {} THEN None ELSE SetMin(ysOf(x))],
         col_max |-> [x \in 0 .. (w - 1) |-> IF ysOf(x) = {} THEN None ELSE SetMax(ysOf(x))]]

\* A slip: the left lane aims at the far end of its row.
target_for_lane_far_left(side, lane, ext) ==
    IF side = "left"
    THEN IF ext.row_max[lane] = None THEN <<>> ELSE <<ext.row_max[lane], lane>>
    ELSE IF side = "right"
    THEN IF ext.row_max[lane] = None THEN <<>> ELSE <<ext.row_max[lane], lane>>
    ELSE IF side = "top"
    THEN IF ext.col_min[lane] = None THEN <<>> ELSE <<lane, ext.col_min[lane]>>
    ELSE IF ext.col_max[lane] = None THEN <<>> ELSE <<lane, ext.col_max[lane]>>

\* The target cell of a lane, or <<>> for Python's None.
target_for_lane(side, lane, ext) ==
    IF side = "left"
    THEN IF ext.row_min[lane] = None THEN <<>> ELSE <<ext.row_min[lane], lane>>
    ELSE IF side = "right"
    THEN IF ext.row_max[lane] = None THEN <<>> ELSE <<ext.row_max[lane], lane>>
    ELSE IF side = "top"
    THEN IF ext.col_min[lane] = None THEN <<>> ELSE <<lane, ext.col_min[lane]>>
    ELSE IF ext.col_max[lane] = None THEN <<>> ELSE <<lane, ext.col_max[lane]>>

\* A slip: only the horizontal neighbours are visited.
Adjacent_row_only(p, r) == p[2] = r[2] /\ (p[1] = r[1] + 1 \/ p[1] = r[1] - 1)

Adjacent(p, r) ==
    \/ (p[2] = r[2] /\ (p[1] = r[1] + 1 \/ p[1] = r[1] - 1))
    \/ (p[1] = r[1] /\ (p[2] = r[2] + 1 \/ p[2] = r[2] - 1))

RECURSIVE Flood(_, _, _)
Flood(grid, c, seen) ==
    LET nb == {r \in DOMAIN grid : r \notin seen /\ grid[r] = c /\ \E p \in seen : Adjacent(p, r)}
    IN  IF nb = {} THEN seen ELSE Flood(grid, c, seen \cup nb)

\* The cells of the component of (x0, y0); the empty set for the empty list.
connected_component(grid, w, h, x0, y0) ==
    IF ~(0 <= x0 /\ x0 < w /\ 0 <= y0 /\ y0 < h) THEN {}
    ELSE IF grid[<<x0, y0>>] = None THEN {}
    ELSE Flood(grid, grid[<<x0, y0>>], {<<x0, y0>>})

\* A slip: a removed cell is written as palette index 0, not None.
ClearCells_as_zero(grid, pts) == [p \in DOMAIN grid |-> IF p \in pts THEN 0 ELSE grid[p]]

ClearCells(grid, pts) == [p \in DOMAIN grid |-> IF p \in pts THEN None ELSE grid[p]]

\* apply_tap: ok = FALSE is the None return.
apply_tap(t, s, shs, tap_xy, c, w, h) ==
    LET pts == connected_component(t, w, h, tap_xy[1], tap_xy[2])
        failed == [ok |-> FALSE, top |-> t, slots |-> s, shooters |-> shs]
    IN  IF Len(shs) >= c.conveyor_capacity THEN failed
        ELSE IF pts = {} THEN failed
        ELSE [ok |-> TRUE,
              top |-> ClearCells(t, pts),
              slots |-> s,
              shooters |-> Append(shs, Shooter(t[tap_xy], Cardinality(pts), c.entrance_pos))]

\* A slip: the sort key is the position alone.
ShooterKeyLess_pos_only(a, b) == a.pos < b.pos

\* The order of the sort key (pos, color, ammo).
ShooterKeyLess(a, b) ==
    \/ a.pos < b.pos
    \/ (a.pos = b.pos /\ a.color < b.color)
    \/ (a.pos = b.pos /\ a.color = b.color /\ a.ammo < b.ammo)

\* Insert sh after every element whose key is not greater (a stable sort).
RECURSIVE InsertSorted(_, _)
InsertSorted(sorted, sh) ==
    IF sorted = <<>> THEN <<sh>>
    ELSE IF ShooterKeyLess(sh, Head(sorted)) THEN <<sh>> \o sorted
    ELSE <<Head(sorted)>> \o InsertSorted(Tail(sorted), sh)

RECURSIVE SortShooters(_)
SortShooters(shs) ==
    IF shs = <<>> THEN <<>>
    ELSE InsertSorted(SortShooters(SubSeq(shs, 1, Len(shs) - 1)), shs[Len(shs)])

\* A slip: the step along the perimeter without the wrap.
Advance_no_wrap(shs, L) == [i \in 1 .. Len(shs) |-> [shs[i] EXCEPT !.pos = shs[i].pos + 1]]

\* A slip: the shooters are not moved.
Advance_stays(shs, L) == shs

\* Every shooter one position on, around the perimeter.
Advance(shs, L) == [i \in 1 .. Len(shs) |-> [shs[i] EXCEPT !.pos = (shs[i].pos + 1) % L]]

\* Whether the shooter fires at the target.
Fires(sh, tgt, grid) == tgt /= <<>> /\ grid[tgt] /= None /\ grid[tgt] = sh.color

\* A slip: a shot costs no ammo.
AfterShot_keeps_ammo(out, sh, fired) == Append(out, sh)

\* The shooter list after one shooter was processed.
AfterShot(out, sh, fired) ==
    IF ~fired THEN Append(out, sh)
    ELSE IF sh.ammo - 1 > 0 THEN Append(out, Shooter(sh.color, sh.ammo - 1, sh.pos))
    ELSE out

\* A slip: the extrema are not recomputed after a shot.
UpdatedExtrema_stale(ext, s, fired, w, h) == ext

\* row_min, row_max, col_min, col_max after one shooter was processed: they
\* are recomputed from the slots grid after every shot.
UpdatedExtrema(ext, s, fired, w, h) == IF fired THEN row_col_extrema(s, w, h) ELSE ext

\* The firing loop of tick over the sorted shooters; ext holds the extrema the
\* next shooter sees, log keeps, per shooter, the slots grid it saw, its target
\* and whether it fired.
RECURSIVE TickLoop(_, _, _, _, _, _, _, _, _, _)
TickLoop(t, s, ext, moved, i, out, shots, log, w, h) ==
    IF i > Len(moved)
    THEN [raised |-> FALSE, top |-> t, slots |-> s, shooters |-> out, shots |-> shots, log |-> log]
    ELSE
        LET sh == moved[i]
            sl == pos_to_side_lane(sh.pos, w, h)
            tgt == target_for_lane(sl.side, sl.lane, ext)
            fired == Fires(sh, tgt, s)
            entry == [sh |-> sh, before |-> s, tgt |-> tgt, fired |-> fired]
            s2 == IF fired THEN ClearCells(s, {tgt}) ELSE s
        IN  IF sl.side = "error"
            THEN [raised |-> TRUE, top |-> t, slots |-> s, shooters |-> out, shots |-> shots, log |-> log]
            ELSE TickLoop(IF fired THEN ClearCells(t, {tgt}) ELSE t, s2,
                          UpdatedExtrema(ext, s2, fired, w, h),
                          moved, i + 1, AfterShot(out, sh, fired),
                          IF fired THEN shots + 1 ELSE shots,
                          Append(log, entry), w, h)

tick(t, s, shs, w, h, c) ==
    LET L == perimeter_len(w, h) IN
    IF L <= 0
    THEN [raised |-> FALSE, top |-> t, slots |-> s, shooters |-> shs, shots |-> 0, log |-> <<>>]
    ELSE
        LET moved == SortShooters(IF c.move_then_fire THEN Advance(shs, L) ELSE shs)
            r == TickLoop(t, s, row_col_extrema(s, w, h), moved, 1, <<>>, 0, <<>>, w, h)
        IN  IF c.move_then_fire \/ r.raised THEN r
            ELSE [r EXCEPT !.shooters = Advance(r.shooters, L)]

\* A slip: any() for all().
is_win_any_empty(s) == \E p \in DOMAIN s : s[p] = None

is_win(s) == \A p \in DOMAIN s : s[p] = None

\* A slip: only the row_min and col_min cells count as exposed.
any_shot_possible_min_only(s, shs, w, h) ==
    IF shs = <<>> THEN FALSE
    ELSE
        LET ext == row_col_extrema(s, w, h)
            exposed_colors ==
                {s[<<ext.row_min[y], y>>] : y \in {yy \in 0 .. (h - 1) : ext.row_min[yy] /= None}}
                \cup {s[<<x, ext.col_min[x]>>] : x \in {xx \in 0 .. (w - 1) : ext.col_min[xx] /= None}}
        IN  \E i \in 1 .. Len(shs) : shs[i].color \in exposed_colors

any_shot_possible(s, shs, w, h) ==
    IF shs = <<>> THEN FALSE
    ELSE
        LET ext == row_col_extrema(s, w, h)
            exposed_colors ==
                {s[<<ext.row_min[y], y>>] : y \in {yy \in 0 .. (h - 1) : ext.row_min[yy] /= None}}
                \cup {s[<<ext.row_max[y], y>>] : y \in {yy \in 0 .. (h - 1) : ext.row_max[yy] /= None}}
                \cup {s[<<x, ext.col_min[x]>>] : x \in {xx \in 0 .. (w - 1) : ext.col_min[xx] /= None}}
                \cup {s[<<x, ext.col_max[x]>>] : x \in {xx \in 0 .. (w - 1) : ext.col_max[xx] /= None}}
        IN  \E i \in 1 .. Len(shs) : shs[i].color \in exposed_colors

\* A slip: the conveyor is not asked whether it is full.
is_deadlock_any_capacity(s, shs, w, h, c) == ~any_shot_possible(s, shs, w, h)

is_deadlock(s, shs, w, h, c) ==
    Len(shs) >= c.conveyor_capacity /\ ~any_shot_possible(s, shs, w, h)

(***************************************************************************)
(* backward_slots.py.  A mask is a list of rows of booleans, a position    *)
(* the pair <<x, y>>, the present set a set of positions.                  *)
(***************************************************************************)
MaskH(m) == Len(m)
MaskW(m) == IF Len(m) = 0 THEN 0 ELSE Len(m[1])
MaskAt(m, x, y) == m[y + 1][x + 1]
MaskCells(m) ==
    {p \in Cells(MaskW(m), MaskH(m)) : MaskAt(m, p[1], p[2])}

\* depth(x, y) of _depth_fn: the least number of steps, in one of the four
\* directions, to leave the mask or to reach a background cell.
depth(m, x, y) ==
    LET w == MaskW(m)
        h == MaskH(m)
        left == SetMin({d \in 1 .. (x + 1) : x - d < 0 \/ ~MaskAt(m, x - d, y)})
        right == SetMin({d \in 1 .. (w - x) : x + d >= w \/ ~MaskAt(m, x + d, y)})
        up == SetMin({d \in 1 .. (y + 1) : y - d < 0 \/ ~MaskAt(m, x, y - d)})
        down == SetMin({d \in 1 .. (h - y) : y + d >= h \/ ~MaskAt(m, x, y + d)})
    IN  IF ~MaskAt(m, x, y) THEN 0 ELSE SetMin({left, right, up, down})

\* <<min, max>> of the present x of row y, or <<>> for None.
row_extrema(present, y) ==
    LET xs == {r[1] : r \in {r \in present : r[2] = y}}
    IN  IF xs = {} THEN <<>> ELSE <<SetMin(xs), SetMax(xs)>>

\* A slip: min for max.
col_extrema_min_only(present, x) ==
    LET ys == {r[2] : r \in {r \in present : r[1] = x}}
    IN  IF ys = {} THEN <<>> ELSE <<SetMin(ys), SetMin(ys)>>

col_extrema(present, x) ==
    LET ys == {r[2] : r \in {r \in present : r[1] = x}}
    IN  IF ys = {} THEN <<>> ELSE <<SetMin(ys), SetMax(ys)>>

\* A slip: only the row is looked at.
is_exposed_rows_only(m, present, p) ==
    IF ~MaskAt(m, p[1], p[2]) THEN FALSE
    ELSE IF p \notin present THEN FALSE
    ELSE LET row == row_extrema(present, p[2])
         IN  row /= <<>> /\ (p[1] = row[1] \/ p[1] = row[2])

is_exposed(m, present, p) ==
    IF ~MaskAt(m, p[1], p[2]) THEN FALSE
    ELSE IF p \notin present THEN FALSE
    ELSE LET row == row_extrema(present, p[2])
             col == col_extrema(present, p[1])
         IN  \/ (row /= <<>> /\ (p[1] = row[1] \/ p[1] = row[2]))
             \/ (col /= <<>> /\ (p[2] = col[1] \/ p[2] = col[2]))

\* The loop of verify_forward_remove_order from step i on: "ok" when it
\* returns, else which ValueError it raises.
RECURSIVE VerifyLoop(_, _, _, _)
VerifyLoop(m, present, order, i) ==
    IF i > Len(order)
    THEN IF present /= {} THEN "remain" ELSE "ok"
    ELSE IF order[i] \notin present THEN "absent"
    ELSE IF ~is_exposed(m, present, order[i]) THEN "unexposed"
    ELSE VerifyLoop(m, present \ {order[i]}, order, i + 1)

\* A slip: the check after the loop is missing.
verify_forward_remove_order_no_final_check(m, order) ==
    LET v == VerifyLoop(m, MaskCells(m), order, 1)
    IN  IF v = "remain" THEN "ok" ELSE v

verify_forward_remove_order(m, order) == VerifyLoop(m, MaskCells(m), order, 1)

Reverse(seq) == [i \in 1 .. Len(seq) |-> seq[Len(seq) + 1 - i]]

\* The cells of present that the forward loop takes for exposed: the extrema
\* of their row or column in the present set.
GenExposed(present) ==
    {p \in present :
        LET row == row_extrema(present, p[2])
            col == col_extrema(present, p[1])
        IN  row[1] = p[1] \/ row[2] = p[1] \/ col[1] = p[2] \/ col[2] = p[2]}

\* A slip: the key is (y, x), without the depth.
GenKeyLess_no_depth(m, a, b) ==
    \/ a[2] < b[2]
    \/ (a[2] = b[2] /\ a[1] < b[1])

\* key < other for the keys (depth, y, x) of two cells.
GenKeyLess(m, a, b) ==
    LET da == depth(m, a[1], a[2])
        db == depth(m, b[1], b[2])
    IN  \/ da < db
        \/ (da = db /\ a[2] < b[2])
        \/ (da = db /\ a[2] = b[2] /\ a[1] < b[1])

\* The forward loop: <<"ok", forward>> or <<"internal", forward so far>>.
RECURSIVE GenLoop(_, _, _)
GenLoop(m, present, forward) ==
    IF present = {} THEN [status |-> "ok", order |-> forward]
    ELSE
        LET cands == GenExposed(present) IN
        IF cands = {} THEN [status |-> "internal", order |-> forward]
        ELSE LET best == CHOOSE p \in cands : \A r \in cands \ {p} : GenKeyLess(m, p, r)
             IN  GenLoop(m, present \ {best}, Append(forward, best))

\* A slip: a mask without rows yields the empty order instead of the error.
generate_backward_place_order_no_rows_ok(m) ==
    IF \E y \in 1 .. Len(m) : Len(m[y]) /= MaskW(m)
    THEN [status |-> "not_rectangular", order |-> <<>>]
    ELSE IF MaskCells(m) = {} THEN [status |-> "returned", order |-> <<>>]
    ELSE
        LET g == GenLoop(m, MaskCells(m), <<>>)
            v == verify_forward_remove_order(m, g.order)
        IN  IF g.status /= "ok" THEN [status |-> g.status, order |-> <<>>]
            ELSE IF v /= "ok" THEN [status |-> v, order |-> <<>>]
            ELSE [status |-> "returned", order |-> Reverse(g.order)]

\* generate_backward_place_order: status "returned" with the backward order,
\* or the error raised.
generate_backward_place_order(m) ==
    IF MaskH(m) = 0 THEN [status |-> "empty", order |-> <<>>]
    ELSE IF \E y \in 1 .. Len(m) : Len(m[y]) /= MaskW(m)
    THEN [status |-> "not_rectangular", order |-> <<>>]
    ELSE IF MaskCells(m) = {} THEN [status |-> "returned", order |-> <<>>]
    ELSE
        LET g == GenLoop(m, MaskCells(m), <<>>)
            v == verify_forward_remove_order(m, g.order)
        IN  IF g.status /= "ok" THEN [status |-> g.status, order |-> <<>>]
            ELSE IF v /= "ok" THEN [status |-> v, order |-> <<>>]
            ELSE [status |-> "returned", order |-> Reverse(g.order)]

(***************************************************************************)
(* slots_from_top.py.  The flow network of _Dinic: nodes 0 .. n-1, edges    *)
(* 0 .. E-1 with edge e and its reverse e ^ 1 at consecutive indices;       *)
(* to[e] and cap[e] are functions of the edge, adj[u] the list of the       *)
(* edges leaving u in the order add_edge appended them.                     *)
(***************************************************************************)
\* The capacity of the edges between groups and colors (INF = 10**9).
EdgeINF == 1000000000
\* The amount dfs starts with: 10**18 in the code, here a number above every
\* capacity that an integer of the model checker holds.
FlowINF == 2000000000

Xor1(e) == IF e % 2 = 0 THEN e + 1 ELSE e - 1

\* add_edge(u, v, c) on the network g.
add_edge(g, u, v, c) ==
    LET e == Len(g.to) IN
    [n |-> g.n,
     to |-> g.to \o <<v, u>>,
     cap |-> g.cap \o <<c, 0>>,
     adj |-> [w \in 0 .. (g.n - 1) |->
                IF u = v /\ w = u THEN g.adj[w] \o <<e, e + 1>>
                ELSE IF w = u THEN Append(g.adj[w], e)
                ELSE IF w = v THEN Append(g.adj[w], e + 1)
                ELSE g.adj[w]]]

EmptyNetwork(n) == [n |-> n, to |-> <<>>, cap |-> <<>>, adj |-> [w \in 0 .. (n - 1) |-> <<>>]]

\* to and cap are lists indexed from 0 in the code.
EdgeTo(g, e) == g.to[e + 1]
CapOf(cap, e) == cap[e + 1]

\* The breadth-first levels from s over the edges with capacity left.
RECURSIVE BfsLevels(_, _, _, _, _)
BfsLevels(g, cap, level, frontier, d) ==
    LET nxt == {v \in 0 .. (g.n - 1) :
                  /\ level[v] < 0
                  /\ \E u \in frontier : \E k \in 1 .. Len(g.adj[u]) :
                        CapOf(cap, g.adj[u][k]) > 0 /\ EdgeTo(g, g.adj[u][k]) = v}
    IN  IF nxt = {} THEN level
        ELSE BfsLevels(g, cap, [v \in 0 .. (g.n - 1) |-> IF v \in nxt THEN d + 1 ELSE level[v]],
                       nxt, d + 1)

\* dfs(u, f): the amount pushed, with the capacities and the it pointers after.
RECURSIVE Dfs(_, _, _, _, _, _, _)
RECURSIVE DfsEdges(_, _, _, _, _, _, _, _)
Dfs(g, t, level, cap, it, u, f) ==
    IF u = t THEN [pushed |-> f, cap |-> cap, it |-> it]
    ELSE DfsEdges(g, t, level, cap, it, u, f, it[u])

DfsEdges(g, t, level, cap, it, u, f, i) ==
    IF i >= Len(g.adj[u]) THEN [pushed |-> 0, cap |-> cap, it |-> it]
    ELSE
        LET it1 == [it EXCEPT ![u] = i]
            ei == g.adj[u][i + 1]
            v == EdgeTo(g, ei)
        IN  IF CapOf(cap, ei) <= 0 \/ level[v] /= level[u] + 1
            THEN DfsEdges(g, t, level, cap, it1, u, f, i + 1)
            ELSE
                LET r == Dfs(g, t, level, cap, it1, v,
                             IF f < CapOf(cap, ei) THEN f ELSE CapOf(cap, ei))
                IN  IF r.pushed /= 0
                    THEN [pushed |-> r.pushed,
                          cap |-> [r.cap EXCEPT ![ei + 1] = @ - r.pushed,
                                                ![Xor1(ei) + 1] = @ + r.pushed],
                          it |-> r.it]
                    ELSE DfsEdges(g, t, level, r.cap, r.it, u, f, i + 1)

\* The inner loop of max_flow: dfs from s until nothing is pushed.
RECURSIVE Blocking(_, _, _, _, _, _, _)
Blocking(g, s, t, level, cap, it, flow) ==
    LET r == Dfs(g, t, level, cap, it, s, FlowINF)
    IN  IF r.pushed = 0 THEN [cap |-> r.cap, flow |-> flow]
        ELSE Blocking(g, s, t, level, r.cap, r.it, flow + r.pushed)

\* The outer loop of max_flow: [flow, cap] when the sink is out of reach.
RECURSIVE MaxFlowLoop(_, _, _, _, _)
MaxFlowLoop(g, s, t, cap, flow) ==
    LET level == BfsLevels(g, cap, [v \in 0 .. (g.n - 1) |-> IF v = s THEN 0 ELSE -1], {s}, 0)
    IN  IF level[t] < 0 THEN [flow |-> flow, cap |-> cap]
        ELSE LET b == Blocking(g, s, t, level, cap, [v \in 0 .. (g.n - 1) |-> 0], flow)
             IN  MaxFlowLoop(g, s, t, b.cap, b.flow)

max_flow(g, s, t) == MaxFlowLoop(g, s, t, g.cap, 0)

\* The index of a cell in the scan (y-major, then x).
ScanIndex(p, w) == p[2] * w + p[1]

\* The cells of S as a list in scan order.
RECURSIVE ScanList(_, _)
ScanList(S, w) ==
    IF S = {} THEN <<>>
    ELSE LET first == CHOOSE p \in S : \A r \in S : ScanIndex(p, w) <= ScanIndex(r, w)
         IN  <<first>> \o ScanList(S \ {first}, w)

\* The elements of a set of integers as an ascending list.
RECURSIVE SortedList(_)
SortedList(S) ==
    IF S = {} THEN <<>> ELSE <<SetMin(S)>> \o SortedList(S \ {SetMin(S)})

CellsOfColor(grid, c) == {p \in DOMAIN grid : grid[p] = c}

\* A slip: every color node may pass all n cells on to the sink.
SinkCapacity_all_cells(counts, c, n) == n

\* The capacity of the edge from the node of color c to the sink.
SinkCapacity(counts, c, n) == counts[c]

\* A slip: an exact half already counts as dominant.
IsDominant_or_half(maxc, n) == maxc * 2 >= n

IsDominant(maxc, n) == maxc * 2 > n

\* The edges source -> group i and color i -> sink, for the colors from i on.
RECURSIVE AddTerminalEdges(_, _, _, _, _)
AddTerminalEdges(g, colors, counts, n, i) ==
    IF i > Len(colors) THEN g
    ELSE LET K == Len(colors)
             g1 == add_edge(g, 0, 1 + (i - 1), counts[colors[i]])
             g2 == add_edge(g1, 1 + K + (i - 1), 1 + 2 * K,
                            SinkCapacity(counts, colors[i], n))
         IN  AddTerminalEdges(g2, colors, counts, n, i + 1)

\* The edges group fi -> color ai for ai /= fi, in the order of the two loops.
RECURSIVE AddCrossEdges(_, _, _, _)
AddCrossEdges(g, K, fi, ai) ==
    IF fi > K THEN g
    ELSE IF ai > K THEN AddCrossEdges(g, K, fi + 1, 1)
    ELSE IF ai = fi THEN AddCrossEdges(g, K, fi, ai + 1)
    ELSE AddCrossEdges(add_edge(g, 1 + (fi - 1), 1 + K + (ai - 1), EdgeINF), K, fi, ai + 1)

\* alloc[(f, a)] read off the reverse edges of the group nodes (0 if absent).
Alloc(g, cap, colors, fi, ai) ==
    LET K == Len(colors)
        es == {k \in 1 .. Len(g.adj[1 + (fi - 1)]) :
                 EdgeTo(g, g.adj[1 + (fi - 1)][k]) = 1 + K + (ai - 1)}
    IN  IF ai = fi \/ es = {} THEN 0
        ELSE CapOf(cap, Xor1(g.adj[1 + (fi - 1)][SetMax(es)]))

\* The color that the j-th cell (from 0) of group fi gets: the colors other
\* than fi in ascending order, alloc cells each; None when the allocation ends
\* before the cell.
RECURSIVE FillColor(_, _, _, _, _, _)
FillColor(g, cap, colors, fi, ai, j) ==
    IF ai > Len(colors) THEN None
    ELSE LET k == Alloc(g, cap, colors, fi, ai)
         IN  IF j < k THEN colors[ai]
             ELSE FillColor(g, cap, colors, fi, ai + 1, j - k)

SumAlloc(g, cap, colors, fi) ==
    LET RECURSIVE Sum(_)
        Sum(ai) == IF ai > Len(colors) THEN 0
                   ELSE Alloc(g, cap, colors, fi, ai) + Sum(ai + 1)
    IN  Sum(1)

SlotsResult(status, mode, cells, shift, same, occ) ==
    [status |-> status, mode |-> mode, cells |-> cells, shift |-> shift,
     same_cell_count |-> same, occupied_cells |-> occ]

\* _derive_slots_derangement on a w x h grid; status is "returned" or the error.
derive_slots_derangement(top_cells, w, h) ==
    LET present == {top_cells[p] : p \in Occupied(top_cells)}
        colors == SortedList(present)
        K == Len(colors)
        counts == [c \in present |-> Cardinality(CellsOfColor(top_cells, c))]
        n == Cardinality(Occupied(top_cells))
        maxc == SetMax({counts[c] : c \in present})
        g == AddCrossEdges(AddTerminalEdges(EmptyNetwork(2 * K + 2), colors, counts, n, 1),
                           K, 1, 1)
        mf == max_flow(g, 0, 1 + 2 * K)
        pts(fi) == ScanList(CellsOfColor(top_cells, colors[fi]), w)
        fi_of(p) == CHOOSE fi \in 1 .. K : colors[fi] = top_cells[p]
        j_of(p) == CHOOSE j \in 1 .. Len(pts(fi_of(p))) : pts(fi_of(p))[j] = p
        out == [p \in DOMAIN top_cells |->
                  IF top_cells[p] = None THEN None
                  ELSE FillColor(g, mf.cap, colors, fi_of(p), 1, j_of(p) - 1)]
        same == Cardinality({p \in Occupied(top_cells) : out[p] = top_cells[p]})
        err(status) == SlotsResult(status, "derangement", <<>>, 0, 0, 0)
    IN  IF h = 0 \/ w = 0 THEN SlotsResult("returned", "derangement", <<>>, 0, 0, 0)
        ELSE IF n = 0
        THEN SlotsResult("returned", "derangement",
                         [p \in DOMAIN top_cells |-> None], 0, 0, 0)
        ELSE IF K = 1 THEN err("single_color")
        ELSE IF IsDominant(maxc, n) THEN err("dominant_color")
        ELSE IF mf.flow /= n THEN err("flow_infeasible")
        ELSE IF \E fi \in 1 .. K : SumAlloc(g, mf.cap, colors, fi) > Len(pts(fi))
        THEN err("index_error")
        ELSE IF \E fi \in 1 .. K : SumAlloc(g, mf.cap, colors, fi) /= Len(pts(fi))
        THEN err("internal_not_filled")
        ELSE IF same /= 0 THEN err("internal_same_cell")
        ELSE SlotsResult("returned", "derangement", out, 0, 0, n)

\* rotate_shift: NoShift for None, SomeShift(k) for the integer k.
NoShift == <<>>
SomeShift(k) == <<k>>

\* same_count_for_shift: the scan indices whose value meets itself under the
\* rotation by k (vals is the 1-based list of the 0-based Python list).
same_count_for_shift(vals, k) ==
    Cardinality({i \in 0 .. (Len(vals) - 1) : vals[i + 1] = vals[((i + k) % Len(vals)) + 1]})

\* The search for the shift, "for k in range(2, n)", from k on: <<best_k, best_same>>.
RECURSIVE BestShiftLoop_last_tie(_, _, _, _)
BestShiftLoop_last_tie(vals, k, best_k, best_same) ==
    IF k >= Len(vals) THEN <<best_k, best_same>>
    ELSE LET sc == same_count_for_shift(vals, k)
         IN  IF sc <= best_same
             THEN IF sc = 0 THEN <<k, sc>>
                  ELSE BestShiftLoop_last_tie(vals, k + 1, k, sc)
             ELSE BestShiftLoop_last_tie(vals, k + 1, best_k, best_same)

RECURSIVE BestShiftLoop(_, _, _, _)
BestShiftLoop(vals, k, best_k, best_same) ==
    IF k >= Len(vals) THEN <<best_k, best_same>>
    ELSE LET sc == same_count_for_shift(vals, k)
         IN  IF sc < best_same
             THEN IF sc = 0 THEN <<k, sc>>
                  ELSE BestShiftLoop(vals, k + 1, k, sc)
             ELSE BestShiftLoop(vals, k + 1, best_k, best_same)

\* The shift the rotation uses and its reported same-cell count.
ChosenShift(vals, rotate_shift) ==
    IF rotate_shift = NoShift
    THEN BestShiftLoop(vals, 2, 1, same_count_for_shift(vals, 1))
    ELSE LET k0 == rotate_shift[1] % Len(vals)
             k == IF k0 = 0 THEN 1 ELSE k0
         IN  <<k, same_count_for_shift(vals, k)>>

\* The value written at scan index i (0-based): vals[(i + k) % n].
RotatedVal_clamped(vals, i, k) ==
    vals[(IF i + k >= Len(vals) THEN Len(vals) - 1 ELSE i + k) + 1]

RotatedVal(vals, i, k) == vals[((i + k) % Len(vals)) + 1]

\* derive_slots_from_top, mode "rotate".
derive_slots_rotate(top_cells, w, h, rotate_shift) ==
    LET pos == ScanList(Occupied(top_cells), w)
        vals == [i \in 1 .. Len(pos) |-> top_cells[pos[i]]]
        n == Len(vals)
        ks == ChosenShift(vals, rotate_shift)
        index_of(p) == (CHOOSE i \in 1 .. n : pos[i] = p) - 1
        out == [p \in DOMAIN top_cells |->
                  IF top_cells[p] = None THEN None
                  ELSE RotatedVal(vals, index_of(p), ks[1])]
    IN  IF n = 0
        THEN SlotsResult("returned", "rotate", [p \in DOMAIN top_cells |-> None], 0, 0, 0)
        ELSE IF n = 1 THEN SlotsResult("returned", "rotate", top_cells, 0, 1, 1)
        ELSE SlotsResult("returned", "rotate", out, ks[1], ks[2], n)

\* derive_slots_from_top on a rectangular w x h grid.
derive_slots_from_top(top_cells, w, h, mode, rotate_shift) ==
    IF h = 0 \/ w = 0 THEN SlotsResult("returned", mode, <<>>, 0, 0, 0)
    ELSE IF mode = "same"
    THEN SlotsResult("returned", mode, top_cells, 0,
                     Cardinality(Occupied(top_cells)), Cardinality(Occupied(top_cells)))
    ELSE IF mode = "derangement" THEN derive_slots_derangement(top_cells, w, h)
    ELSE IF mode /= "rotate" THEN SlotsResult("unknown_mode", mode, <<>>, 0, 0, 0)
    ELSE derive_slots_rotate(top_cells, w, h, rotate_shift)

(***************************************************************************)
(* component_split.py, mode "cuts".                                        *)
(***************************************************************************)
\* _components_by_color: the components as a list, in scan order of the
\* first cell of each.
RECURSIVE ComponentList(_, _, _)
ComponentList(cells, w, todo) ==
    IF todo = {} THEN <<>>
    ELSE LET seed == CHOOSE p \in todo : \A r \in todo : ScanIndex(p, w) <= ScanIndex(r, w)
             pts == Flood(cells, cells[seed], {seed})
         IN  <<[color |-> cells[seed], pts |-> pts]>> \o ComponentList(cells, w, todo \ pts)

components_by_color(cells, w) == ComponentList(cells, w, Occupied(cells))

\* A slip: only the neighbours in the row are looked at.
is_boundary_row_only(pts, p) ==
    \/ <<p[1] + 1, p[2]>> \notin pts
    \/ <<p[1] - 1, p[2]>> \notin pts

\* is_boundary: some 4-neighbour of p is not in the component.
is_boundary(pts, p) ==
    \/ <<p[1] + 1, p[2]>> \notin pts
    \/ <<p[1] - 1, p[2]>> \notin pts
    \/ <<p[1], p[2] + 1>> \notin pts
    \/ <<p[1], p[2] - 1>> \notin pts

\* sorted(xs)[len(xs) // 2] for the coordinates (axis 1 = x, 2 = y) of use_pts.
MedianCoord(use_pts, axis) ==
    LET k == Cardinality(use_pts) \div 2
    IN  CHOOSE v \in {p[axis] : p \in use_pts} :
            /\ Cardinality({p \in use_pts : p[axis] < v}) <= k
            /\ k < Cardinality({p \in use_pts : p[axis] <= v})

\* One candidate line x0 of the search: skipped outside [lo, hi], else it
\* becomes the best line if it holds more cells of use_pts than the best.
TryLine(use_pts, axis, lo, hi, x0, best) ==
    LET cnt == Cardinality({p \in use_pts : p[axis] = x0})
    IN  IF x0 < lo \/ x0 > hi THEN best
        ELSE IF cnt > best.cnt THEN [line |-> x0, cnt |-> cnt]
        ELSE best

\* The search outward from mid, from distance d on; it stops once the best
\* line holds at least 3 cells.
RECURSIVE SearchLine(_, _, _, _, _, _, _)
SearchLine(use_pts, axis, lo, hi, mid, d, best) ==
    IF d > hi - lo THEN best
    ELSE LET b1 == TryLine(use_pts, axis, lo, hi, mid - d, best)
             b2 == TryLine(use_pts, axis, lo, hi, mid + d, b1)
         IN  IF b2.cnt >= 3 THEN b2
             ELSE SearchLine(use_pts, axis, lo, hi, mid, d + 1, b2)

\* best_x and best_cnt (best_y for axis 2) of one cut: the search over the
\* extent of use_pts.
ChosenLine(use_pts, axis) ==
    LET coords == {p[axis] : p \in use_pts}
    IN  SearchLine(use_pts, axis, SetMin(coords), SetMax(coords),
                   MedianCoord(use_pts, axis), 0, [line |-> None, cnt |-> -1])

\* The cuts cut_i, cut_i + 1, ... of one component, alternating the axis.
RECURSIVE CutLoop(_, _, _, _, _, _, _)
CutLoop(cells, use_pts, color_cycle, cut_thickness, splits, cut_i, w) ==
    IF cut_i >= splits - 1 THEN cells
    ELSE
        LET sep_color == color_cycle[((1 + cut_i) % Len(color_cycle)) + 1]
            axis == IF cut_i % 2 = 0 THEN 1 ELSE 2
            best == ChosenLine(use_pts, axis)
            lines == {best.line + (t - (cut_thickness \div 2)) : t \in 0 .. (cut_thickness - 1)}
            cut == [p \in DOMAIN cells |->
                      IF p \in use_pts /\ p[axis] \in lines THEN sep_color ELSE cells[p]]
        IN  IF best.line = None \/ best.cnt <= 0
            THEN CutLoop(cells, use_pts, color_cycle, cut_thickness, splits, cut_i + 1, w)
            ELSE CutLoop(cut, use_pts, color_cycle, cut_thickness, splits, cut_i + 1, w)

\* The body of the loop over the components, for the components from i on.
RECURSIVE SplitLoop(_, _, _, _, _, _, _, _, _)
SplitLoop(cells, comps, i, palette_size, max_component_size, cut_thickness, max_splits, only_color, w) ==
    IF i > Len(comps) THEN cells
    ELSE
        LET color == comps[i].color
            pts == comps[i].pts
            n == Cardinality(pts)
            ceil == (n + max_component_size - 1) \div max_component_size
            capped == IF ceil < max_splits THEN ceil ELSE max_splits
            splits == IF capped > 2 THEN capped ELSE 2
            color_cycle == <<color>> \o SortedList((0 .. (palette_size - 1)) \ {color})
            interior == {p \in pts : ~is_boundary(pts, p)}
            use_pts == IF interior /= {} THEN interior ELSE pts
            skip == \/ (only_color /= None /\ color /= only_color)
                    \/ n <= max_component_size
            next == IF skip THEN cells
                    ELSE CutLoop(cells, use_pts, color_cycle, cut_thickness, splits, 0, w)
        IN  SplitLoop(next, comps, i + 1, palette_size, max_component_size,
                      cut_thickness, max_splits, only_color, w)

\* split_large_components in mode "cuts": the grid after the call (the code
\* changes cells in place); the two ValueErrors leave it as it is.
split_large_components(cells, w, h, palette_size, max_component_size, cut_thickness, max_splits, only_color) ==
    IF max_component_size <= 0 \/ cut_thickness <= 0 THEN cells
    ELSE IF palette_size < 2 THEN cells
    ELSE IF h = 0 \/ w = 0 THEN cells
    ELSE SplitLoop(cells, components_by_color(cells, w), 1, palette_size,
                   max_component_size, cut_thickness, max_splits, only_color, w)

(***************************************************************************)
(* top_rebalance.py                                                        *)
(***************************************************************************)
\* The defaults of rebalance_top_for_derangement and the max_splits it passes.
MaxIters == 6
CutThickness == 2
RebalanceMaxSplits == 2

\* by of _counts: the number of cells of every color that occurs.
counts_by(cells) ==
    [c \in {cells[p] : p \in Occupied(cells)} |-> Cardinality(CellsOfColor(cells, c))]

\* A slip in the comparison: the color with the fewest cells is taken.
dominant_fewest(by) ==
    LET least == SetMin({by[c] : c \in DOMAIN by})
    IN  <<SetMin({c \in DOMAIN by : by[c] = least}), least>>

\* dominant(): <<color, count>> of the most frequent color, the smallest
\* index among equals.
dominant(by) ==
    LET most == SetMax({by[c] : c \in DOMAIN by})
    IN  <<SetMin({c \in DOMAIN by : by[c] = most}), most>>

\* A slip: share < max_dominant_share.
ShareOk_strict(dcnt, occ) == 2 * dcnt < occ

\* share <= max_dominant_share for the default share 0.5.
ShareOk(dcnt, occ) == 2 * dcnt <= occ

\* _component_sizes_for_color: the sizes, largest first.
component_sizes_for_color(cells, w, color) ==
    LET comps == ComponentList(cells, w, CellsOfColor(cells, color))
        sizes == [i \in 1 .. Len(comps) |-> Cardinality(comps[i].pts)]
        RECURSIVE Desc(_)
        Desc(idx) ==
            IF idx = {} THEN <<>>
            ELSE LET m == CHOOSE i \in idx : \A j \in idx : sizes[i] >= sizes[j]
                 IN  <<sizes[m]>> \o Desc(idx \ {m})
    IN  Desc(1 .. Len(comps))

\* max_component_size as the loop body chooses it.
RebalanceMaxComponent(sizes) ==
    LET largest == sizes[1]
        second == IF Len(sizes) > 1 THEN sizes[2] ELSE 0
    IN  IF second > 0 THEN second
        ELSE IF largest \div 2 > 1 THEN largest \div 2 ELSE 1

\* The grid after the split of one loop iteration.
RebalanceSplit(cells, w, h, palette_size) ==
    LET dcol == dominant(counts_by(cells))[1]
        sizes == component_sizes_for_color(cells, w, dcol)
    IN  split_large_components(cells, w, h, palette_size, RebalanceMaxComponent(sizes),
                               CutThickness, RebalanceMaxSplits, dcol)

(***************************************************************************)
(* solver.py, with all_components of sim.py.                               *)
(***************************************************************************)
\* The top-leftmost cell of a component: the smallest x in its first row.
TopLeft(pts) ==
    LET miny == SetMin({p[2] : p \in pts})
    IN  <<SetMin({p[1] : p \in {r \in pts : r[2] = miny}}), miny>>

\* The sort key (-len, miny, minx) of all_components.
ComponentKeyLess(a, b) ==
    LET ta == TopLeft(a)
        tb == TopLeft(b)
    IN  \/ Cardinality(a) > Cardinality(b)
        \/ (Cardinality(a) = Cardinality(b) /\ ta[2] < tb[2])
        \/ (Cardinality(a) = Cardinality(b) /\ ta[2] = tb[2] /\ ta[1] < tb[1])

\* The scan of all_components: the component of every cell not seen yet.
RECURSIVE ScanComponents(_, _, _)
ScanComponents(grid, w, todo) ==
    IF todo = {} THEN {}
    ELSE LET seed == CHOOSE p \in todo : \A r \in todo : ScanIndex(p, w) <= ScanIndex(r, w)
             pts == Flood(grid, grid[seed], {seed})
         IN  {pts} \cup ScanComponents(grid, w, todo \ pts)

RECURSIVE SortComponents(_)
SortComponents(comps) ==
    IF comps = {} THEN <<>>
    ELSE LET first == CHOOSE a \in comps : \A b \in comps : a = b \/ ComponentKeyLess(a, b)
         IN  <<first>> \o SortComponents(comps \ {first})

\* all_components: largest first, then by top-left cell.
all_components(grid, w, h) == SortComponents(ScanComponents(grid, w, Occupied(grid)))

\* _flatten: the rows one after the other, None as -1.
flatten(grid, w, h) ==
    [i \in 1 .. (w * h) |->
        LET c == grid[<<(i - 1) % w, (i - 1) \div w>>]
        IN  IF c = None THEN -1 ELSE c]

\* _unflatten
unflatten(flat, w, h) ==
    [p \in Cells(w, h) |->
        LET v == flat[p[2] * w + p[1] + 1]
        IN  IF v < 0 THEN None ELSE v]

\* _canon_shooters: the (pos, color, ammo) tuples, sorted.
canon_shooters(shs) ==
    LET sorted == SortShooters(shs)
    IN  [i \in 1 .. Len(sorted) |-> <<sorted[i].pos, sorted[i].color, sorted[i].ammo>>]

\* The shooter list the loop rebuilds from a state.
StateShooters(canon) == [i \in 1 .. Len(canon) |-> Shooter(canon[i][2], canon[i][3], canon[i][1])]

StateKey(t, s, shs, w, h) == <<flatten(t, w, h), flatten(s, w, h), canon_shooters(shs)>>

\* An entry of prev; <<>> stands for None.
PrevEntry(p, act, d) == [p |-> p, act |-> act, d |-> d]

\* The solution of a result: the list of actions, or NoSolution for None.
NoSolution == <<>>
SomeSolution(path) == <<path>>
SolutionOf(r) == r.solution[1]

SolveResult(solvable, steps, exp, reason, solution) ==
    [status |-> "returned", solvable |-> solvable, steps |-> steps,
     expanded |-> exp, reason |-> reason, solution |-> solution]

\* The walk of reconstruct from a state back to the start, in the map pv.
RECURSIVE ReconstructBack(_, _, _)
ReconstructBack(pv, cur, path) ==
    IF pv[cur].p = <<>> THEN path
    ELSE ReconstructBack(pv, pv[cur].p,
                         IF pv[cur].act /= <<>> THEN Append(path, pv[cur].act) ELSE path)

\* A slip: the path is returned as collected, last action first.
reconstruct_unreversed(pv, end_state) == ReconstructBack(pv, end_state, <<>>)

reconstruct(pv, end_state) == Reverse(ReconstructBack(pv, end_state, <<>>))

\* The actions of a state: a tap per component, then the wait.
SolveActions(top_g, lv) ==
    LET comps == all_components(top_g, lv.w, lv.h)
    IN  [i \in 1 .. Len(comps) |-> <<"tap", TopLeft(comps[i])[1], TopLeft(comps[i])[2]>>]
        \o (IF lv.allow_wait THEN <<<<"wait", -1, -1>>>> ELSE <<>>)

\* One action on the grids and shooters of a state: the tap (none for a
\* wait), then one tick.  ok = FALSE is the None of apply_tap.
AfterTap(nxt, lv) ==
    IF ~nxt.ok THEN [ok |-> FALSE]
    ELSE [ok |-> TRUE, r |-> tick(nxt.top, nxt.slots, nxt.shooters, lv.w, lv.h, lv.cfg)]

ApplyAction(act, top_g, slots_g, shs, lv) ==
    AfterTap(IF act[1] = "tap"
             THEN apply_tap(top_g, slots_g, shs, <<act[2], act[3]>>, lv.cfg, lv.w, lv.h)
             ELSE [ok |-> TRUE, top |-> top_g, slots |-> slots_g, shooters |-> shs],
             lv)

\* A slip: appendleft, the queue becomes a stack.
Enqueue_front(qu, next_state) == <<next_state>> \o qu

\* q.append: a new state goes to the back of the queue.
Enqueue(qu, next_state) == Append(qu, next_state)

\* The loop over the actions of state st from action i on, with queue qu
\* and map pv.  done is "solved" (with the result), "raised" (tick raised)
\* or "" (all actions tried).
RECURSIVE ActionLoop(_, _, _, _, _, _, _, _)
RECURSIVE ActionBranch(_, _, _, _, _, _, _, _, _)
ActionLoop(actions, i, st, dep, qu, pv, exp, lv) ==
    IF i > Len(actions) THEN [done |-> "", q |-> qu, prev |-> pv]
    ELSE ActionBranch(ApplyAction(actions[i], unflatten(st[1], lv.w, lv.h),
                                  unflatten(st[2], lv.w, lv.h), StateShooters(st[3]), lv),
                      actions, i, st, dep, qu, pv, exp, lv)

\* The rest of the loop body for the outcome o of action i.
ActionBranch(o, actions, i, st, dep, qu, pv, exp, lv) ==
    IF ~o.ok THEN ActionLoop(actions, i + 1, st, dep, qu, pv, exp, lv)
    ELSE IF o.r.raised THEN [done |-> "raised", q |-> qu, prev |-> pv]
    ELSE
        LET next_state == StateKey(o.r.top, o.r.slots, o.r.shooters, lv.w, lv.h)
            entry == PrevEntry(st, actions[i], dep + 1)
            known == next_state \in DOMAIN pv
            added == IF known THEN pv ELSE pv @@ (next_state :> entry)
        IN  IF is_win(o.r.slots)
            THEN [done |-> "solved", q |-> qu, prev |-> added,
                  result |-> SolveResult(TRUE, dep + 1, exp, "solved",
                                         SomeSolution(reconstruct(added, next_state)))]
            ELSE ActionLoop(actions, i + 1, st, dep,
                            IF known THEN qu ELSE Enqueue(qu, next_state),
                            added, exp, lv)

(***************************************************************************)
(* The simulator as a state machine: a level, then taps and ticks.          *)
(***************************************************************************)
Configs ==
    [conveyor_capacity : 1 .. MaxCapacity,
     entrance_pos : {0, perimeter_len(SimW, SimH) - 1},
     move_then_fire : BOOLEAN]

\* Taps the caller may try: every cell, and cells outside the grid.
TapInputs == Cells(SimW, SimH) \cup {<<-1, 0>>, <<SimW, 0>>, <<0, SimH>>}

SimIdle ==
    /\ top = <<>> /\ slots = <<>> /\ shooters = <<>>
    /\ cfg = <<>> /\ last = <<>>
OrdIdle == mask = <<>> /\ forder = <<>> /\ verdict = "" /\ bwd = <<>>
RebIdle == rtop = <<>> /\ rcells = <<>> /\ riters = 0 /\ rres = <<>> /\ dres = <<>>
SolIdle ==
    /\ lvl = <<>> /\ q = <<>> /\ prev = <<>> /\ expanded = 0
    /\ sres = <<>> /\ replayed = 0

\* A level: top and slots share their occupancy mask; no shooter yet.
InitSim ==
    /\ top \in Grids(SimW, SimH, Colors)
    /\ slots \in {g \in Grids(SimW, SimH, Colors) : Occupied(g) = Occupied(top)}
    /\ shooters = <<>>
    /\ cfg \in Configs
    /\ last = [op |-> "level", ok |-> TRUE, shots |-> 0]

Tap(xy) ==
    LET r == apply_tap(top, slots, shooters, xy, cfg, SimW, SimH) IN
    /\ top' = r.top
    /\ slots' = r.slots
    /\ shooters' = r.shooters
    /\ last' = [op |-> "tap", ok |-> r.ok, shots |-> 0]
    /\ UNCHANGED <<cfg, ordVars, rebVars, solVars>>

TapAny == \E xy \in TapInputs : Tap(xy)

\* The shots of a tick at a cell that was not the target of the shooter's lane
\* on the slots grid the tick started from.
ChainedShots(log, s0, w, h) ==
    Cardinality({i \in 1 .. Len(log) :
        /\ log[i].fired
        /\ LET sl == pos_to_side_lane(log[i].sh.pos, w, h)
           IN  log[i].tgt /= target_for_lane(sl.side, sl.lane, row_col_extrema(s0, w, h))})

Tick ==
    LET r == tick(top, slots, shooters, SimW, SimH, cfg) IN
    /\ top' = r.top
    /\ slots' = r.slots
    /\ shooters' = r.shooters
    /\ last' = [op |-> "tick", ok |-> ~r.raised, shots |-> r.shots,
                chained |-> ChainedShots(r.log, slots, SimW, SimH)]
    /\ UNCHANGED <<cfg, ordVars, rebVars, solVars>>

Init == InitSim /\ OrdIdle /\ RebIdle /\ SolIdle
Next == TapAny \/ Tick
Spec == Init /\ [][Next]_vars

\* The levels derive_slots_from_top builds: besides the mask, top and slots
\* share the number of cells of every color.
SameHistogram(t, s) ==
    \A c \in Colors :
        Cardinality({p \in DOMAIN t : t[p] = c}) = Cardinality({p \in DOMAIN s : s[p] = c})

InitBalanced == Init /\ SameHistogram(top, slots)
SpecBalanced == InitBalanced /\ [][Next]_vars

(***************************************************************************)
(* The ordering as a state machine.  SpecOrder: a caller builds the order  *)
(* of a mask and verifies its reverse, as level_from_image does.           *)
(* SpecVerify: a caller hands verify_forward_remove_order longer and       *)
(* longer orders of its own.                                               *)
(***************************************************************************)
OrdW == 4
OrdH == 3
VerW == 3
VerH == 3
MaxOrderLen == 2

Masks(w, h) == [1 .. h -> [1 .. w -> BOOLEAN]]

\* Positions a caller may put in an order: the cells and two outside the grid.
OrderInputs == Cells(VerW, VerH) \cup {<<-1, 0>>, <<0, VerH>>}

InitOrder ==
    /\ mask \in Masks(OrdW, OrdH)
    /\ forder = <<>>
    /\ verdict = "none"
    /\ bwd = [status |-> "pending", order |-> <<>>]

Generate ==
    /\ bwd.status = "pending"
    /\ bwd' = generate_backward_place_order(mask)
    /\ UNCHANGED <<mask, forder, verdict, simVars, rebVars, solVars>>

VerifyReversed ==
    /\ bwd.status = "returned"
    /\ verdict = "none"
    /\ forder' = Reverse(bwd.order)
    /\ verdict' = verify_forward_remove_order(mask, forder')
    /\ UNCHANGED <<mask, bwd, simVars, rebVars, solVars>>

NextOrder == Generate \/ VerifyReversed
InitOrderSpec == InitOrder /\ SimIdle /\ RebIdle /\ SolIdle
SpecOrder == InitOrderSpec /\ [][NextOrder]_vars

InitVerify ==
    /\ mask \in Masks(VerW, VerH)
    /\ forder = <<>>
    /\ verdict = verify_forward_remove_order(mask, <<>>)
    /\ bwd = <<>>

ExtendOrder(p) ==
    /\ Len(forder) < MaxOrderLen
    /\ forder' = Append(forder, p)
    /\ verdict' = verify_forward_remove_order(mask, forder')
    /\ UNCHANGED <<mask, bwd, simVars, rebVars, solVars>>

ExtendAny == \E p \in OrderInputs : ExtendOrder(p)

NextVerify == ExtendAny
InitVerifySpec == InitVerify /\ SimIdle /\ RebIdle /\ SolIdle
SpecVerify == InitVerifySpec /\ [][NextVerify]_vars

(***************************************************************************)
(* Properties of the ordering.                                             *)
(***************************************************************************)
\* The foreground cells of the mask still present before step i of an order.
PresentBefore(order, i) == MaskCells(mask) \ {order[j] : j \in 1 .. (i - 1)}

\* p is the minimum-x or maximum-x present cell of its row, or the minimum-y
\* or maximum-y present cell of its column.
LaneExtremum(P, p) ==
    /\ p \in P
    /\ \/ ~\E r \in P : r[2] = p[2] /\ r[1] < p[1]
       \/ ~\E r \in P : r[2] = p[2] /\ r[1] > p[1]
       \/ ~\E r \in P : r[1] = p[1] /\ r[2] < p[2]
       \/ ~\E r \in P : r[1] = p[1] /\ r[2] > p[2]

\* C1: for a mask with a foreground cell generate_backward_place_order returns
\* a list holding every foreground cell exactly once and nothing else, and the
\* verifier accepts its reverse: every cell is a lane extremum when removed.
C1_BackwardOrderValid ==
    (bwd.status /= "pending" /\ MaskCells(mask) /= {}) =>
        LET fwd == Reverse(bwd.order) IN
        /\ bwd.status = "returned"
        /\ Len(bwd.order) = Cardinality(MaskCells(mask))
        /\ {bwd.order[i] : i \in 1 .. Len(bwd.order)} = MaskCells(mask)
        /\ \A i \in 1 .. Len(fwd) : LaneExtremum(PresentBefore(fwd, i), fwd[i])
        /\ (verdict /= "none" => (verdict = "ok" /\ forder = fwd))

\* The order of the full mask was built and its reverse verified.
C1_Witness ==
    /\ bwd.status = "returned" /\ verdict = "ok"
    /\ Len(forder) = OrdW * OrdH

DerW == 3
DerH == 2
DerColors == 3

DerPalette == 0 .. (DerColors - 1)
DerPending == [status |-> "pending"]

InitSlots ==
    /\ rtop \in Grids(DerW, DerH, DerPalette)
    /\ rcells = rtop
    /\ riters = 0
    /\ rres = <<>>
    /\ dres = DerPending

\* The rotate_shift arguments tried: None and the integers from below zero
\* to beyond the number of cells.
MaxShift == 7
RotateShifts == {NoShift} \cup {SomeShift(k) : k \in -2 .. MaxShift}

\* A call of derive_slots_from_top; the rotate_shift argument is kept beside
\* the result.
Derive(mode, rotate_shift) ==
    /\ dres = DerPending
    /\ dres' = derive_slots_from_top(rcells, DerW, DerH, mode, rotate_shift)
                  @@ [rotate_shift |-> rotate_shift]
    /\ UNCHANGED <<rtop, rcells, riters, rres, simVars, ordVars, solVars>>

DeriveAny ==
    \/ \E mode \in {"derangement", "same"} : Derive(mode, NoShift)
    \/ \E rotate_shift \in RotateShifts : Derive("rotate", rotate_shift)

InitSlotsSpec == InitSlots /\ SimIdle /\ OrdIdle /\ SolIdle
NextSlots == DeriveAny
SpecSlots == InitSlotsSpec /\ [][NextSlots]_vars

(***************************************************************************)
(* The rebalancer as a state machine: the loop of                          *)
(* rebalance_top_for_derangement one iteration at a time, then, as in      *)
(* level_from_image, the derangement of the grid it returned.              *)
(***************************************************************************)
RebResult(ok, iterations, dominant_color, share) ==
    [status |-> "returned", ok |-> ok, iterations |-> iterations,
     dominant_color |-> dominant_color, dominant_share |-> share]

InitRebalance ==
    \E palette_size \in 1 .. DerColors :
        /\ rtop \in Grids(DerW, DerH, 0 .. (palette_size - 1))
        /\ rcells = rtop
        /\ riters = 0
        /\ rres = [status |-> "running", palette_size |-> palette_size]
        /\ dres = DerPending

\* The loop (or the check before it) returns.
RebalanceReturn ==
    /\ rres.status = "running"
    /\ LET occ == Cardinality(Occupied(rcells))
           d == dominant(counts_by(rcells))
       IN  \/ /\ occ = 0
              /\ rres' = RebResult(TRUE, 0, None, <<0, 1>>)
           \/ /\ occ /= 0
              /\ ShareOk(d[2], occ)
              /\ rres' = RebResult(TRUE, riters, d[1], <<d[2], occ>>)
           \/ /\ occ /= 0
              /\ ~ShareOk(d[2], occ)
              /\ riters >= MaxIters
              /\ rres' = RebResult(FALSE, riters, d[1], <<d[2], occ>>)
    /\ UNCHANGED <<rtop, rcells, riters, dres, simVars, ordVars, solVars>>

\* The loop goes round once more: neither return of its head is taken.
LoopContinues ==
    /\ rres.status = "running"
    /\ Occupied(rcells) /= {}
    /\ ~ShareOk(dominant(counts_by(rcells))[2], Cardinality(Occupied(rcells)))
    /\ riters < MaxIters

\* A slip: cells = top_cells, so the splitter writes into the caller's rows.
CallerGridAfter_aliased(caller_grid, cells_after) == cells_after

\* The caller's grid after the splitter wrote into cells: cells is a copy of
\* the rows (cells = [row[:] for row in top_cells]), so it is untouched.
CallerGridAfter(caller_grid, cells_after) == caller_grid

\* One iteration: a seam in the dominant color, the recount, the counter.
RebalanceIterate ==
    /\ LoopContinues
    /\ rcells' = RebalanceSplit(rcells, DerW, DerH, rres.palette_size)
    /\ rtop' = CallerGridAfter(rtop, rcells')
    /\ riters' = riters + 1
    /\ UNCHANGED <<rres, dres, simVars, ordVars, solVars>>

\* What every iteration does, whatever the splitter makes of the grid: the
\* steps of RebalanceIterate are the steps of the loop that satisfy it, and it
\* is enabled exactly when RebalanceIterate is.
IterationCounted ==
    /\ LoopContinues
    /\ riters' = riters + 1
    /\ rcells' \in Grids(DerW, DerH, DerPalette)
    /\ UNCHANGED <<rtop, rres, dres, simVars, ordVars, solVars>>

\* level_from_image: the derangement of the grid the rebalancer returned.
DeriveRebalanced ==
    /\ rres.status = "returned"
    /\ dres = DerPending
    /\ dres' = derive_slots_from_top(rcells, DerW, DerH, "derangement", NoShift)
    /\ UNCHANGED <<rtop, rcells, riters, rres, simVars, ordVars, solVars>>

InitRebalanceSpec == InitRebalance /\ SimIdle /\ OrdIdle /\ SolIdle
NextRebalance == RebalanceReturn \/ RebalanceIterate \/ DeriveRebalanced
SpecRebalance == InitRebalanceSpec /\ [][NextRebalance]_vars

\* The rebalancer as a sequential program: a call that can take a step of its
\* loop, or a caller that can derive the slots, does so.
SpecRebalanceFair ==
    SpecRebalance /\ WF_vars(RebalanceReturn) /\ WF_vars(IterationCounted)

(***************************************************************************)
(* Properties of the rebalancer.                                           *)
(***************************************************************************)
\* C5: when rebalance_top_for_derangement returns ok = true, the derangement
\* of the grid it returned succeeds.
C5_RebalancedIsDerangeable ==
    (rres.status = "returned" /\ rres.ok /\ dres /= DerPending) =>
        dres.status = "returned"

\* The rebalancer cut at least one seam, returned ok, and the derangement of
\* its grid was derived.
C5_Witness ==
    /\ rres.status = "returned" /\ rres.ok /\ rres.iterations >= 1
    /\ dres /= DerPending /\ dres.status = "returned"
    /\ rcells /= rtop

(***************************************************************************)
(* Properties of the slots derivation.                                     *)
(***************************************************************************)
CountOf(grid, c) == Cardinality({p \in DOMAIN grid : grid[p] = c})

\* C2: a grid returned in mode derangement is empty exactly where top is,
\* has top's number of cells of every color, and differs from top in every
\* occupied cell.
C2_DerangementCorrect ==
    (dres.status = "returned" /\ dres.mode = "derangement") =>
        /\ DOMAIN dres.cells = DOMAIN rcells
        /\ \A p \in DOMAIN rcells : (dres.cells[p] = None) <=> (rcells[p] = None)
        /\ \A c \in DerPalette : CountOf(dres.cells, c) = CountOf(rcells, c)
        /\ \A p \in Occupied(rcells) : dres.cells[p] /= rcells[p]

\* A derangement of a full grid of three colors was returned.
C2_Witness ==
    /\ dres.status = "returned" /\ dres.mode = "derangement"
    /\ Cardinality(Occupied(rcells)) = DerW * DerH
    /\ \A c \in 0 .. 2 : CountOf(rcells, c) >= 1

\* C4: with n >= 1 occupied cells, mode derangement fails with the dominant or
\* single color error exactly when a color holds more than n/2 of them, and
\* returns a grid otherwise; no other error is raised.
C4_DerangementFailsExactly ==
    (dres /= DerPending /\ dres.mode = "derangement" /\ Occupied(rcells) /= {}) =>
        LET n == Cardinality(Occupied(rcells))
            dominated == \E c \in DerPalette : 2 * CountOf(rcells, c) > n
        IN  /\ dres.status \in {"returned", "single_color", "dominant_color"}
            /\ (dres.status \in {"single_color", "dominant_color"}) <=> dominated

\* The derivation failed for a grid of two colors, one of them dominant.
C4_Witness ==
    /\ dres /= DerPending /\ dres.mode = "derangement"
    /\ dres.status = "dominant_color"
    /\ Cardinality(Occupied(rcells)) >= 4

(***************************************************************************)
(* Properties of the simulator.                                            *)
(***************************************************************************)
SimCells == Cells(SimW, SimH)

\* C6: along taps and ticks no empty cell of top or slots becomes occupied,
\* no occupied cell changes color, and a tick never adds a slot cell.
C6_OccupancyOnlyShrinks ==
    [][/\ \A p \in SimCells :
            /\ (top[p] = None => top'[p] = None)
            /\ (top'[p] /= None => top'[p] = top[p])
            /\ (slots[p] = None => slots'[p] = None)
            /\ (slots'[p] /= None => slots'[p] = slots[p])
       /\ (last'.op = "tick" => Occupied(slots') \subseteq Occupied(slots))]_vars

\* A tick has fired while top cells and another shooter remain.
C6_Witness ==
    /\ last.op = "tick" /\ last.shots >= 1
    /\ Occupied(top) /= {} /\ Occupied(slots) /= {} /\ shooters /= <<>>

\* The 4-connected same-color component of p, as the least set that holds p and
\* is closed under stepping to a 4-neighbour of the same color.
Neighbour4(a, b) ==
    (a[1] - b[1]) * (a[1] - b[1]) + (a[2] - b[2]) * (a[2] - b[2]) = 1
ClosedAround(grid, p, S) ==
    /\ p \in S
    /\ \A a \in S : \A b \in DOMAIN grid :
            (Neighbour4(a, b) /\ grid[b] = grid[p]) => b \in S
ComponentOf(grid, p) ==
    CHOOSE S \in SUBSET (DOMAIN grid) :
        /\ ClosedAround(grid, p, S)
        /\ \A T \in SUBSET (DOMAIN grid) : ClosedAround(grid, p, T) => S \subseteq T

C7_TapPost(xy) ==
    IF \/ Len(shooters) >= cfg.conveyor_capacity
       \/ xy \notin SimCells
       \/ top[xy] = None
    THEN /\ last'.ok = FALSE
         /\ top' = top /\ slots' = slots /\ shooters' = shooters
    ELSE LET comp == ComponentOf(top, xy) IN
         /\ last'.ok = TRUE
         /\ \A p \in SimCells : top'[p] = IF p \in comp THEN None ELSE top[p]
         /\ slots' = slots
         /\ Len(shooters') = Len(shooters) + 1
         /\ \A i \in 1 .. Len(shooters) : shooters'[i] = shooters[i]
         /\ shooters'[Len(shooters')] =
                [color |-> top[xy], ammo |-> Cardinality(comp), pos |-> cfg.entrance_pos]

\* C7: apply_tap fails without change when the conveyor is full or the tapped
\* cell is empty or out of range; otherwise it removes exactly the component of
\* the tapped cell from top, keeps slots and the shooters, and appends one
\* shooter (component color, component size, entrance_pos).
C7_TapEffect == [][\A xy \in TapInputs : Tap(xy) => C7_TapPost(xy)]_vars

\* A tap succeeded on a conveyor that already held a shooter.
C7_Witness == last.op = "tap" /\ last.ok /\ Len(shooters) = 2

\* The lane of a perimeter position, and the occupied cell of the lane nearest
\* to the side the lane is entered from (a set of at most one cell).
LaneTargets(grid, pos, w, h) ==
    IF pos < w
    THEN {t \in DOMAIN grid : t[1] = pos /\ grid[t] /= None
            /\ \A y \in 0 .. (t[2] - 1) : grid[<<pos, y>>] = None}
    ELSE IF pos < w + h
    THEN {t \in DOMAIN grid : t[2] = pos - w /\ grid[t] /= None
            /\ \A x \in (t[1] + 1) .. (w - 1) : grid[<<x, pos - w>>] = None}
    ELSE IF pos < 2 * w + h
    THEN {t \in DOMAIN grid : t[1] = 2 * w + h - 1 - pos /\ grid[t] /= None
            /\ \A y \in (t[2] + 1) .. (h - 1) : grid[<<t[1], y>>] = None}
    ELSE {t \in DOMAIN grid : t[2] = 2 * w + 2 * h - 1 - pos /\ grid[t] /= None
            /\ \A x \in 0 .. (t[1] - 1) : grid[<<x, t[2]>>] = None}

C8_TickPost ==
    LET r == tick(top, slots, shooters, SimW, SimH, cfg)
        L == perimeter_len(SimW, SimH)
        n == Len(r.log)
        hit(i) == {t \in LaneTargets(r.log[i].before, r.log[i].sh.pos, SimW, SimH) :
                     r.log[i].before[t] = r.log[i].sh.color}
        after(i) == IF i = n THEN slots' ELSE r.log[i + 1].before
        allHit == UNION {hit(i) : i \in 1 .. n}
        endPos(i) == IF cfg.move_then_fire THEN r.log[i].sh.pos
                     ELSE (r.log[i].sh.pos + 1) % L
        left(i) == [color |-> r.log[i].sh.color,
                    ammo |-> r.log[i].sh.ammo - (IF r.log[i].fired THEN 1 ELSE 0),
                    pos |-> endPos(i)]
    IN  \* every shooter is processed once, in (pos, color, ammo) order
        /\ n = Len(shooters)
        /\ \A sh \in {shooters[i] : i \in 1 .. n} :
              Cardinality({i \in 1 .. n : shooters[i] = sh})
                = Cardinality({i \in 1 .. n :
                    r.log[i].sh = [sh EXCEPT !.pos =
                        IF cfg.move_then_fire THEN (sh.pos + 1) % L ELSE sh.pos]})
        \* it fires exactly when its lane's extremal slot cell has its color
        /\ (n > 0 => r.log[1].before = slots)
        /\ \A i \in 1 .. n :
              /\ r.log[i].fired <=> hit(i) /= {}
              /\ \A p \in SimCells :
                    after(i)[p] = IF p \in hit(i) THEN None ELSE r.log[i].before[p]
        \* a shot empties the slot cell and the top cell at the same position
        /\ \A p \in SimCells : top'[p] = IF p \in allHit THEN None ELSE top[p]
        /\ (n = 0 => slots' = slots)
        \* ammo drops by one per shot; a shooter is dropped exactly at ammo 0
        /\ shooters' = SelectSeq([i \in 1 .. n |-> left(i)], LAMBDA s : s.ammo /= 0)
        /\ last'.shots = Cardinality(Occupied(slots) \ Occupied(slots'))
        /\ last'.shots = Cardinality({i \in 1 .. n : r.log[i].fired})

\* C8: in one tick every shooter fires at most once, exactly when the extremal
\* occupied slot cell of its lane exists and has its color when it is processed;
\* a shot empties that slot cell and the same top cell and costs one ammo; a
\* shooter is dropped exactly at ammo 0; shots_fired counts the emptied cells.
C8_TickEffect == [][Tick => C8_TickPost]_vars

\* A tick in which two shots were fired and a shooter survived.
C8_Witness == last.op = "tick" /\ last.shots >= 2 /\ shooters /= <<>>

\* C10: from a state where is_deadlock holds, no tap or tick fires a shot or
\* changes slots, and is_deadlock holds again afterwards (so it holds forever).
C10_DeadlockIsFinal ==
    [][is_deadlock(slots, shooters, SimW, SimH, cfg) =>
         /\ slots' = slots
         /\ last'.shots = 0
         /\ is_deadlock(slots', shooters', SimW, SimH, cfg)]_vars

\* A tick was taken in a deadlocked state with slot cells left.
C10_Witness ==
    /\ is_deadlock(slots, shooters, SimW, SimH, cfg)
    /\ last.op = "tick" /\ last.shots = 0
    /\ Occupied(slots) /= {} /\ Occupied(top) /= {}

(***************************************************************************)
(* The solver as a state machine: solve_level on a level, then the replay  *)
(* of the solution it returned on the simulator.                           *)
(***************************************************************************)
SolW == 2
SolH == 2
SolMaxExpanded == 300
SolMaxSteps == 12

SolPending == [status |-> "pending"]

SolConfigs ==
    [conveyor_capacity : 1 .. MaxCapacity,
     entrance_pos : {0, perimeter_len(SolW, SolH) - 1},
     move_then_fire : BOOLEAN]

\* The search limits the caller passes: (max_expanded, max_steps).
SolLimits ==
    {<<SolMaxExpanded, SolMaxSteps>>, <<SolMaxExpanded, 2>>, <<SolMaxExpanded, 0>>,
     <<3, SolMaxSteps>>, <<1, SolMaxSteps>>, <<0, SolMaxSteps>>}

\* A level: slots share the occupancy mask of top, or top is empty and slots
\* are any grid (a level without top blocks).
InitSolve ==
    /\ top \in Grids(SolW, SolH, Colors)
    /\ slots \in {g \in Grids(SolW, SolH, Colors) :
                    Occupied(g) = Occupied(top) \/ Occupied(top) = {}}
    /\ shooters = <<>>
    /\ cfg \in SolConfigs
    /\ last = [op |-> "level", ok |-> TRUE, shots |-> 0]
    /\ \E lim \in SolLimits, allow_wait \in BOOLEAN :
           lvl = [top |-> top, slots |-> slots, w |-> SolW, h |-> SolH, cfg |-> cfg,
                  max_expanded |-> lim[1], max_steps |-> lim[2], allow_wait |-> allow_wait]
    /\ q = <<>>
    /\ prev = <<>>
    /\ expanded = 0
    /\ sres = SolPending
    /\ replayed = 0

\* solve_level up to its while loop.
SolveStart ==
    /\ sres = SolPending
    /\ IF is_win(lvl.slots)
       THEN /\ sres' = SolveResult(TRUE, 0, 0, "already_clear", SomeSolution(<<>>))
            /\ UNCHANGED <<q, prev>>
       ELSE LET start == StateKey(lvl.top, lvl.slots, <<>>, lvl.w, lvl.h)
            IN  /\ q' = <<start>>
                /\ prev' = start :> PrevEntry(<<>>, <<>>, 0)
                /\ sres' = [status |-> "searching"]
    /\ UNCHANGED <<lvl, expanded, replayed, simVars, ordVars, rebVars>>

\* One iteration of the while loop that pops a state and goes on to the next
\* without expanding it: too deep, or a deadlock.
SolveSkip ==
    /\ sres.status = "searching"
    /\ q /= <<>>
    /\ \/ prev[Head(q)].d >= lvl.max_steps
       \/ is_deadlock(unflatten(Head(q)[2], lvl.w, lvl.h), StateShooters(Head(q)[3]),
                      lvl.w, lvl.h, lvl.cfg)
    /\ q' = Tail(q)
    /\ UNCHANGED <<lvl, prev, expanded, sres, replayed, simVars, ordVars, rebVars>>

\* The loop pops a state that it expands: none of the two "continue".
PopsToExpand ==
    /\ sres.status = "searching"
    /\ q /= <<>>
    /\ prev[Head(q)].d < lvl.max_steps
    /\ ~is_deadlock(unflatten(Head(q)[2], lvl.w, lvl.h), StateShooters(Head(q)[3]),
                    lvl.w, lvl.h, lvl.cfg)

\* A slip in the break test: one expansion more is allowed.
BudgetSpent_strict(exp, max_expanded) == exp > max_expanded

\* The break test after an expansion.
BudgetSpent(exp, max_expanded) == exp >= max_expanded

\* One iteration that expands the popped state: the loop over its actions,
\* then the counter and the max_expanded break.
SolveExpand ==
    /\ PopsToExpand
    /\ \E a \in {ActionLoop(SolveActions(unflatten(Head(q)[1], lvl.w, lvl.h), lvl), 1,
                            Head(q), prev[Head(q)].d, Tail(q), prev, expanded, lvl)} :
           /\ q' = a.q
           /\ prev' = a.prev
           /\ IF a.done = "solved" THEN sres' = a.result /\ expanded' = expanded
              ELSE IF a.done = "raised" THEN sres' = [status |-> "raised"] /\ expanded' = expanded
              ELSE /\ expanded' = expanded + 1
                   /\ sres' = IF BudgetSpent(expanded + 1, lvl.max_expanded)
                              THEN SolveResult(FALSE, None, expanded + 1, "max_expanded", NoSolution)
                              ELSE sres
    /\ UNCHANGED <<lvl, replayed, simVars, ordVars, rebVars>>

\* The queue is empty: the loop ends and solve_level returns unsolved.
SolveExhausted ==
    /\ sres.status = "searching"
    /\ q = <<>>
    /\ sres' = SolveResult(FALSE, None, expanded,
                           IF expanded < lvl.max_expanded THEN "search_exhausted"
                           ELSE "max_expanded", NoSolution)
    /\ UNCHANGED <<lvl, q, prev, expanded, replayed, simVars, ordVars, rebVars>>

\* The next action of the solution on the simulator: the tap (none for a
\* wait), then one tick.  A failing tap ends the replay.
ReplayAction ==
    /\ sres.status = "returned"
    /\ sres.solvable
    /\ last.ok
    /\ replayed < Len(SolutionOf(sres))
    /\ \E o \in {ApplyAction(SolutionOf(sres)[replayed + 1], top, slots, shooters, lvl)} :
           IF ~o.ok
           THEN /\ last' = [op |-> "tap", ok |-> FALSE, shots |-> 0]
                /\ UNCHANGED <<top, slots, shooters, replayed>>
           ELSE /\ top' = o.r.top
                /\ slots' = o.r.slots
                /\ shooters' = o.r.shooters
                /\ last' = [op |-> "tick", ok |-> ~o.r.raised, shots |-> o.r.shots]
                /\ replayed' = replayed + 1
    /\ UNCHANGED <<cfg, lvl, q, prev, expanded, sres, ordVars, rebVars>>

\* What every expanding iteration does, whatever states it finds: the steps
\* of SolveExpand are the steps of the solver that satisfy it, and it is
\* enabled exactly when SolveExpand is.
ExpansionTaken ==
    /\ PopsToExpand
    /\ UNCHANGED <<lvl, replayed, simVars, ordVars, rebVars>>
    /\ \/ \* an expansion that finds no new state and leaves budget
          /\ expanded' = expanded + 1
          /\ q' = Tail(q) /\ prev' = prev /\ sres' = sres
       \/ \* any other: the counter goes up, or the search returns
          expanded' \in {expanded, expanded + 1}

InitSolveSpec == InitSolve /\ OrdIdle /\ RebIdle
NextSolve == SolveStart \/ SolveSkip \/ SolveExpand \/ SolveExhausted \/ ReplayAction
SpecSolve == InitSolveSpec /\ [][NextSolve]_vars

\* The solver as a sequential program: the call goes on while it can.
SpecSolveFair ==
    /\ SpecSolve
    /\ WF_vars(SolveStart) /\ WF_vars(SolveSkip) /\ WF_vars(SolveExhausted)
    /\ WF_vars(ExpansionTaken)

(***************************************************************************)
(* Properties of the solver.                                               *)
(***************************************************************************)
\* C3: when solve_level returns solvable = true, the solution has exactly
\* steps actions, and its replay from the initial grids without shooters
\* (the tap of a tap action, nothing for a wait, one tick after every action)
\* meets no failing tap and has emptied the slots grid after steps ticks, and
\* not before.
C3_SolutionReplays ==
    (sres.status = "returned" /\ sres.solvable) =>
        /\ Len(SolutionOf(sres)) = sres.steps
        /\ last.ok
        /\ is_win(slots) <=> (replayed = sres.steps)

\* A solution of at least two actions, a tap and a wait among them, replayed
\* to its end.
C3_Witness ==
    /\ sres.status = "returned" /\ sres.solvable /\ sres.reason = "solved"
    /\ sres.steps >= 2 /\ replayed = sres.steps
    /\ \E i \in 1 .. Len(SolutionOf(sres)) : SolutionOf(sres)[i][1] = "tap"
    /\ \E i \in 1 .. Len(SolutionOf(sres)) : SolutionOf(sres)[i][1] = "wait"
    /\ is_win(slots)

\* A step of the while loop after which the loop goes on: either it expanded
\* a state and the budget max_expanded is not yet spent, or it skipped a
\* state and the queue is one shorter.  The pair (max_expanded - expanded,
\* Len(q)) so decreases in the lexicographic order of the naturals.
SolveLoopDecreases ==
    (sres.status = "searching" /\ sres'.status = "searching") =>
        \/ /\ expanded' = expanded + 1
           /\ expanded' < lvl.max_expanded
        \/ /\ expanded' = expanded
           /\ Len(q') = Len(q) - 1

\* C11: solve_level terminates: it returns in every run, every iteration that
\* does not return lowers the well-founded measure of SolveLoopDecreases, and
\* every step from a state it expands is one ExpansionTaken describes, the
\* action the fairness of SpecSolveFair is stated on; for max_expanded >= 1 the
\* reported expanded is at most max_expanded; a solution has at most max_steps
\* actions; the result is solvable exactly for the reasons already_clear and
\* solved, and unsolvable without a solution exactly for search_exhausted and
\* max_expanded.
C11_SolverBounded ==
    /\ <>(sres.status = "returned")
    /\ [][SolveLoopDecreases]_vars
    /\ [][PopsToExpand => ExpansionTaken]_vars
    /\ [](sres.status = "returned" =>
            /\ (lvl.max_expanded >= 1 => sres.expanded <= lvl.max_expanded)
            /\ (sres.solvable => Len(SolutionOf(sres)) <= lvl.max_steps)
            /\ sres.solvable <=> sres.reason \in {"already_clear", "solved"}
            /\ (~sres.solvable /\ sres.solution = NoSolution)
                   <=> sres.reason \in {"search_exhausted", "max_expanded"})

\* A search that stopped at its expansion budget, having used all of it.
C11_Witness ==
    /\ sres.status = "returned" /\ sres.reason = "max_expanded"
    /\ lvl.max_expanded >= 2 /\ sres.expanded = lvl.max_expanded

\* The lists that hold the elements of shs in any order.
PermutationsOf(shs) ==
    {[i \in 1 .. Len(shs) |-> shs[f[i]]] : f \in Permutations(1 .. Len(shs))}

\* C16: tick depends on the multiset of shooters only: called with any
\* permutation of the shooter list it returns the same top, the same slots,
\* the same shots_fired and the same list of shooters, and the permutation has
\* the same canonical state in the solver.
C16_TickIgnoresShooterOrder ==
    [][last'.op = "tick" =>
          \A perm \in PermutationsOf(shooters) :
              LET r == tick(top, slots, perm, SimW, SimH, cfg)
              IN  /\ r.top = top'
                  /\ r.slots = slots'
                  /\ r.shots = last'.shots
                  /\ r.shooters = shooters'
                  /\ StateKey(top, slots, perm, SimW, SimH)
                         = StateKey(top, slots, shooters, SimW, SimH)]_vars

\* A tick fired with two shooters of different colors on the conveyor, both
\* of which stayed.
C16_Witness ==
    /\ last.op = "tick" /\ last.shots >= 1
    /\ Len(shooters) = 2
    /\ shooters[1].color /= shooters[2].color

\* C14: when top has no occupied cell and slots have one, solve_level returns
\* solvable = false with reason search_exhausted or max_expanded, whatever
\* max_expanded, max_steps and allow_wait are.
C14_NoTopUnsolvable ==
    (/\ sres.status = "returned"
     /\ Occupied(lvl.top) = {}
     /\ Occupied(lvl.slots) /= {}) =>
        /\ ~sres.solvable
        /\ sres.reason \in {"search_exhausted", "max_expanded"}

\* The search expanded the start state of a level without top blocks, found
\* no action, and ran out of states.
C14_Witness ==
    /\ sres.status = "returned"
    /\ Occupied(lvl.top) = {} /\ Occupied(lvl.slots) /= {}
    /\ lvl.allow_wait
    /\ sres.reason = "search_exhausted" /\ sres.expanded = 1

\* The key (depth in the original mask, y, x) of p is at most that of r.
KeyAtMost(p, r) ==
    LET dp == depth(mask, p[1], p[2])
        dr == depth(mask, r[1], r[2])
    IN  \/ dp < dr
        \/ dp = dr /\ p[2] < r[2]
        \/ dp = dr /\ p[2] = r[2] /\ p[1] <= r[1]

\* The exposed cells of the present set before step i of the forward order,
\* and those of them whose key is minimal.
ExposedBefore(order, i) ==
    {p \in PresentBefore(order, i) : LaneExtremum(PresentBefore(order, i), p)}
MinimalBefore(order, i) ==
    {p \in ExposedBefore(order, i) : \A r \in ExposedBefore(order, i) : KeyAtMost(p, r)}

\* C17: at every step of the forward removal loop the non-empty present set
\* has an exposed cell, exactly one exposed cell has the minimal key (depth in
\* the original mask, y, x), and the step removes that cell.
C17_StepRemovesMinimalExposed ==
    bwd.status /= "pending" =>
        /\ bwd.status = "returned"
        /\ LET fwd == Reverse(bwd.order)
           IN  \A i \in 1 .. Cardinality(MaskCells(mask)) :
                   /\ PresentBefore(fwd, i) /= {}
                   /\ ExposedBefore(fwd, i) /= {}
                   /\ Cardinality(MinimalBefore(fwd, i)) = 1
                   /\ i <= Len(fwd)
                   /\ fwd[i] \in MinimalBefore(fwd, i)

\* The loop ran on the full mask: it began at the top-left corner and at some
\* step chose among exposed cells of different depths.
C17_Witness ==
    /\ bwd.status = "returned"
    /\ MaskCells(mask) = Cells(OrdW, OrdH)
    /\ Reverse(bwd.order)[1] = <<0, 0>>
    /\ \E i \in 1 .. Len(bwd.order) :
           \E a, b \in ExposedBefore(Reverse(bwd.order), i) :
               depth(mask, a[1], a[2]) < depth(mask, b[1], b[2])

(***************************************************************************)
(* generate_backward_place_order on any list of rows: the caller's mask    *)
(* may have no rows, rows of different lengths, or no foreground cell.     *)
(***************************************************************************)
MaxRows == 3
MaxRowLen == 3

MaskRows == UNION {[1 .. n -> BOOLEAN] : n \in 0 .. MaxRowLen}
AnyMasks == UNION {[1 .. n -> MaskRows] : n \in 0 .. MaxRows}

InitAnyMask ==
    /\ mask \in AnyMasks
    /\ forder = <<>>
    /\ verdict = "none"
    /\ bwd = [status |-> "pending", order |-> <<>>]

InitAnyMaskSpec == InitAnyMask /\ SimIdle /\ RebIdle /\ SolIdle
SpecAnyMask == InitAnyMaskSpec /\ [][NextOrder]_vars

IsRagged(m) == \E y1, y2 \in 1 .. Len(m) : Len(m[y1]) /= Len(m[y2])
NoForeground(m) == \A y \in 1 .. Len(m) : \A x \in 1 .. Len(m[y]) : ~m[y][x]

\* C15 as stated: generate_backward_place_order fails with a validation error
\* when the mask is non-rectangular and when it is empty (no rows, or rows
\* without a foreground cell), and fails in no other case.
C15_FailsOnEveryEmptyMask ==
    bwd.status /= "pending" =>
        /\ (IsRagged(mask) \/ NoForeground(mask)) =>
               bwd.status \in {"not_rectangular", "empty"}
        /\ ~(IsRagged(mask) \/ NoForeground(mask)) => bwd.status = "returned"

\* C15, amended: generate_backward_place_order fails with a validation error
\* exactly when the mask has no rows or is non-rectangular; for a rectangular
\* mask with rows but no foreground cell it returns the empty order, and it
\* fails in no other case.
C15_FailsOnNoRowsOrRagged ==
    bwd.status /= "pending" =>
        /\ Len(mask) = 0 => bwd.status = "empty"
        /\ IsRagged(mask) => bwd.status = "not_rectangular"
        /\ (Len(mask) > 0 /\ ~IsRagged(mask)) => bwd.status = "returned"
        /\ (Len(mask) > 0 /\ ~IsRagged(mask) /\ NoForeground(mask)) => bwd.order = <<>>

\* The empty order was returned for a mask of several rows without foreground.
C15_Witness ==
    /\ bwd.status = "returned" /\ bwd.order = <<>>
    /\ Len(mask) >= 2 /\ Len(mask[1]) >= 2
    /\ NoForeground(mask)

\* The components of the color that no other component of it exceeds in size.
LargestComponents(cells, color) ==
    LET comps == {ComponentOf(cells, p) : p \in CellsOfColor(cells, color)}
    IN  {c \in comps : \A o \in comps : Cardinality(o) <= Cardinality(c)}

\* C19: with palette_size >= 2, every iteration of the rebalance loop that
\* runs the splitter recolors at least one cell of the dominant color's
\* largest component and no cell outside it, and so strictly lowers the
\* dominant color's count.
C19_IterationCutsLargest ==
    [][(riters' = riters + 1 /\ rres.palette_size >= 2) =>
          LET dcol == dominant(counts_by(rcells))[1]
              changed == {p \in DOMAIN rcells : rcells'[p] /= rcells[p]}
          IN  /\ changed /= {}
              /\ \E comp \in LargestComponents(rcells, dcol) : changed \subseteq comp
              /\ CountOf(rcells', dcol) < CountOf(rcells, dcol)]_vars

\* The colors of the palette that no color exceeds in count.
MostFrequent(cells) ==
    {c \in DerPalette : /\ CountOf(cells, c) >= 1
                        /\ \A o \in DerPalette : CountOf(cells, o) <= CountOf(cells, c)}

\* C20: the rebalancer terminates (it returns in every run, and every step of
\* a loop that continues is one IterationCounted describes, the action the
\* fairness of SpecRebalanceFair is stated on), with iterations <= max_iters; ok is true
\* exactly when the most frequent color of the returned grid holds at most
\* max_dominant_share (one half) of its occupied cells, or none is occupied;
\* dominant_color is the most frequent color of the returned grid, the
\* smallest index among equals.
C20_RebalanceTerminates ==
    /\ <>(rres.status = "returned")
    /\ [][LoopContinues => IterationCounted]_vars
    /\ [](rres.status = "returned" =>
            LET occ == Cardinality(Occupied(rcells))
            IN  /\ rres.iterations <= MaxIters
                /\ rres.iterations = riters
                /\ rres.ok <=> (occ = 0 \/ \A c \in DerPalette : 2 * CountOf(rcells, c) <= occ)
                /\ occ > 0 =>
                       /\ rres.dominant_color \in MostFrequent(rcells)
                       /\ \A c \in MostFrequent(rcells) : rres.dominant_color <= c)

\* The loop cut a seam, spent all max_iters iterations and gave up: the
\* dominant color still holds more than half of the returned grid.
C20_Witness ==
    /\ rres.status = "returned" /\ ~rres.ok
    /\ rres.iterations = MaxIters
    /\ rcells /= rtop

SplitW == 3
SplitH == 4
SplitColors == 2

\* The grids: SplitW x (SplitH - 1) over all colors, SplitW x SplitH over all
\* colors but the last; <<w, h, number of colors>>.
SplitShapes == {<<SplitW, SplitH - 1, SplitColors>>, <<SplitW, SplitH, SplitColors - 1>>}

\* The arguments tried:
\* <<palette_size, max_component_size, cut_thickness, max_splits, only_color>>.
SplitParams ==
    {<<2, 4, 1, 2, None>>, <<2, 4, 2, 2, 0>>, <<3, 2, 1, 3, None>>,
     <<3, 4, 2, 3, 1>>, <<3, 3, 1, 2, 0>>}

InitSplit ==
    /\ \E sh \in SplitShapes, pr \in SplitParams :
           /\ rtop \in Grids(sh[1], sh[2], 0 .. (sh[3] - 1))
           /\ rres = [status |-> "pending", w |-> sh[1], h |-> sh[2],
                      palette_size |-> pr[1], max_component_size |-> pr[2],
                      cut_thickness |-> pr[3], max_splits |-> pr[4], only_color |-> pr[5]]
    /\ rcells = rtop
    /\ riters = 0
    /\ dres = <<>>

\* The call: cells is changed in place.
Split ==
    /\ rres.status = "pending"
    /\ rcells' = split_large_components(rcells, rres.w, rres.h, rres.palette_size,
                                        rres.max_component_size, rres.cut_thickness,
                                        rres.max_splits, rres.only_color)
    /\ rres' = [rres EXCEPT !.status = "returned"]
    /\ UNCHANGED <<rtop, riters, dres, simVars, ordVars, solVars>>

InitSplitSpec == InitSplit /\ SimIdle /\ OrdIdle /\ SolIdle
NextSplit == Split
SpecSplit == InitSplitSpec /\ [][NextSplit]_vars

\* (pos, color, ammo) of a comes no later than that of b.
ShooterKeyAtMost(a, b) ==
    \/ a.pos < b.pos
    \/ a.pos = b.pos /\ a.color < b.color
    \/ a.pos = b.pos /\ a.color = b.color /\ a.ammo <= b.ammo

C24_TickPost ==
    LET r == tick(top, slots, shooters, SimW, SimH, cfg)
        n == Len(r.log)
        shotBefore(i) == {r.log[j].tgt : j \in {k \in 1 .. (i - 1) : r.log[k].fired}}
        seen(i) == [p \in SimCells |-> IF p \in shotBefore(i) THEN None ELSE slots[p]]
        hit(i) == {t \in LaneTargets(seen(i), r.log[i].sh.pos, SimW, SimH) :
                     seen(i)[t] = r.log[i].sh.color}
    IN  /\ n = Len(shooters)
        /\ \A i \in 1 .. n : \A j \in (i + 1) .. n : ShooterKeyAtMost(r.log[i].sh, r.log[j].sh)
        /\ \A i \in 1 .. n :
              /\ r.log[i].before = seen(i)
              /\ r.log[i].fired <=> hit(i) /= {}
              /\ r.log[i].fired => r.log[i].tgt \in hit(i)
        /\ slots' = seen(n + 1)
        /\ last'.chained = Cardinality({i \in 1 .. n :
              hit(i) \ LaneTargets(slots, r.log[i].sh.pos, SimW, SimH) /= {}})

\* C24: within a tick the shooters are processed in ascending (pos, color,
\* ammo) order, and each shooter's target is the extremal cell of its lane on
\* the slots grid as the earlier shots of the same tick left it: it fires at a
\* cell of its color that became the extremum of its lane through such a shot.
C24_TickSeesEarlierShots == [][Tick => C24_TickPost]_vars

\* A tick in which a shooter removed a cell that an earlier shot of the same
\* tick had made the extremum of its lane.
C24_Witness == last.op = "tick" /\ last.chained >= 1

\* The ammo the shooters of color c hold.
RECURSIVE AmmoOf(_, _)
AmmoOf(shs, c) ==
    IF shs = <<>> THEN 0
    ELSE (IF Head(shs).color = c THEN Head(shs).ammo ELSE 0) + AmmoOf(Tail(shs), c)

\* Supply and demand of color c: the top cells and the ammo against the slot
\* cells.
Supply(t, shs, c) == CountOf(t, c) + AmmoOf(shs, c)
Demand(s, c) == CountOf(s, c)

\* C25 as stated: from a level with equal per-color counts, the supply of
\* every color covers its demand in every reachable state.
C25_SupplyCoversDemand == \A c \in Colors : Supply(top, shooters, c) >= Demand(slots, c)

\* C25, amended: from such a level the supply of a color never exceeds its
\* demand; a tap keeps supply minus demand, and a tick lowers it by the number
\* of top cells of that color lying under the slot cells its shots removed.
C25_SupplyFallsWithCoveredTop ==
    /\ [](\A c \in Colors : Supply(top, shooters, c) <= Demand(slots, c))
    /\ [][\A c \in Colors :
            Supply(top', shooters', c) - Demand(slots', c)
              = Supply(top, shooters, c) - Demand(slots, c)
                - Cardinality({p \in SimCells :
                      top[p] = c /\ slots[p] /= None /\ slots'[p] = None})]_vars

\* After a tick whose shot removed a top cell, a color is short of supply.
C25_Witness ==
    /\ last.op = "tick" /\ last.shots >= 1
    /\ \E c \in Colors : Supply(top, shooters, c) < Demand(slots, c)

\* C29: in every state reached by taps and ticks from a level without
\* shooters, with conveyor_capacity >= 1 and entrance_pos on the perimeter,
\* there are at most conveyor_capacity shooters, each with ammo >= 1 and a
\* position on the perimeter.
C29_ShootersWellFormed ==
    (cfg.conveyor_capacity >= 1
        /\ cfg.entrance_pos \in 0 .. (perimeter_len(SimW, SimH) - 1)) =>
        /\ Len(shooters) <= cfg.conveyor_capacity
        /\ \A i \in 1 .. Len(shooters) :
              /\ shooters[i].ammo >= 1
              /\ shooters[i].pos \in 0 .. (perimeter_len(SimW, SimH) - 1)

\* A full conveyor after a tick that fired: a shooter that entered at the last
\* position has wrapped to position 0.
C29_Witness ==
    /\ last.op = "tick" /\ last.shots >= 1
    /\ Len(shooters) = cfg.conveyor_capacity /\ Len(shooters) = MaxCapacity
    /\ cfg.entrance_pos = perimeter_len(SimW, SimH) - 1
    /\ \E i \in 1 .. Len(shooters) : shooters[i].pos = 0

(***************************************************************************)
(* Properties of the splitter.                                             *)
(***************************************************************************)
\* The same-color region of the grid around p ({} for an empty cell).
RegionOf(grid, p) == IF grid[p] = None THEN {} ELSE Flood(grid, grid[p], {p})

\* The cells of a region whose four neighbours all belong to it.
InteriorOf(region) ==
    {p \in region : \A r \in {<<p[1] + 1, p[2]>>, <<p[1] - 1, p[2]>>,
                              <<p[1], p[2] + 1>>, <<p[1], p[2] - 1>>} : r \in region}

\* The region around p is one the call may cut: of only_color (when given) and
\* larger than max_component_size.
Oversize(grid, p, pr) ==
    /\ grid[p] /= None
    /\ pr.only_color = None \/ pr.only_color = grid[p]
    /\ Cardinality(RegionOf(grid, p)) > pr.max_component_size

\* C22: a call of split_large_components in mode "cuts" leaves every empty
\* cell, every cell of a component that is not oversize or not of only_color,
\* and, in an oversize component that has an interior cell, every boundary
\* cell as it was: there only interior cells are recolored.
C22_OnlyInteriorRecolored ==
    [][Split =>
        \A p \in DOMAIN rcells :
            LET interior == InteriorOf(RegionOf(rcells, p))
            IN  (\/ rcells[p] = None
                 \/ ~Oversize(rcells, p, rres)
                 \/ (interior /= {} /\ p \notin interior))
                => rcells'[p] = rcells[p]]_vars

\* A returned call that recolored an interior cell of an oversize component
\* next to a component of another color.
C22_Witness ==
    /\ rres.status = "returned"
    /\ "max_splits" \in DOMAIN rres
    /\ \E p \in DOMAIN rtop :
           /\ Oversize(rtop, p, rres)
           /\ p \in InteriorOf(RegionOf(rtop, p))
           /\ rcells[p] /= rtop[p]
           /\ \E r \in DOMAIN rtop : rtop[r] \notin {None, rtop[p]}

\* The cells a cut of the region may recolor: the interior, or the whole
\* region when it has no interior.
EligibleOf(region) == IF InteriorOf(region) /= {} THEN InteriorOf(region) ELSE region

\* The number of cuts of a region of n cells, and the axes of these cuts
\* (1 = a vertical line x = const, 2 = a horizontal line y = const).
CutsOf(n, pr) ==
    LET need == (n + pr.max_component_size - 1) \div pr.max_component_size
        capped == IF need < pr.max_splits THEN need ELSE pr.max_splits
    IN  (IF capped > 2 THEN capped ELSE 2) - 1
CutAxes(n, pr) == {1 + (i % 2) : i \in 0 .. (CutsOf(n, pr) - 1)}

\* How many of the cells lie on the line at position x of the axis.
OnLine(pts, axis, x) == Cardinality({p \in pts : p[axis] = x})

\* The place of position x in the search outward from the median:
\* mid, mid - 1, mid + 1, mid - 2, ...
OutwardRank(x, mid) == IF x = mid THEN 0 ELSE IF x < mid THEN 2 * (mid - x) - 1 ELSE 2 * (x - mid)

\* The position within the extent of the cells with the most cells on it, the
\* first such position of the outward search.
MaxLine(pts, axis) ==
    LET coords == {p[axis] : p \in pts}
        mid == MedianCoord(pts, axis)
    IN  CHOOSE x \in SetMin(coords) .. SetMax(coords) :
            \A y \in SetMin(coords) .. SetMax(coords) :
                \/ OnLine(pts, axis, x) > OnLine(pts, axis, y)
                \/ (OnLine(pts, axis, x) = OnLine(pts, axis, y)
                    /\ OutwardRank(x, mid) <= OutwardRank(y, mid))

\* C23: in every call, the line chosen for each cut of an oversize component
\* is the position within the extent of the cut-eligible cells that has the
\* most cut-eligible cells on it, ties going to the position found first in
\* the search outward from the median.
C23_CutLineMaximizes ==
    [][Split =>
        \A p \in DOMAIN rcells :
            (Oversize(rcells, p, rres) /\ rres.palette_size > 1) =>
                LET region == RegionOf(rcells, p)
                IN  \A axis \in CutAxes(Cardinality(region), rres) :
                        ChosenLine(EligibleOf(region), axis).line
                            = MaxLine(EligibleOf(region), axis)]_vars

(***************************************************************************)
(* Properties of the rotation.                                             *)
(***************************************************************************)
\* The number of occupied cells before p in the scan (y-major, then x).
RankOf(grid, p) ==
    Cardinality({r \in Occupied(grid) : ScanIndex(r, DerW) < ScanIndex(p, DerW)})

\* The color of the occupied cell of rank i.
ValAt(grid, i) == grid[CHOOSE p \in Occupied(grid) : RankOf(grid, p) = i]

\* The ranks whose color meets itself k ranks further, cyclically.
SameAt(grid, k) ==
    LET n == Cardinality(Occupied(grid))
    IN  Cardinality({i \in 0 .. (n - 1) : ValAt(grid, i) = ValAt(grid, (i + k) % n)})

\* C12: on every rectangular grid, mode rotate (rotate_shift None or any
\* integer) returns a grid that is empty exactly where top is empty and holds
\* every color as often as top does.
C12_RotateKeepsMaskAndCounts ==
    (dres /= DerPending /\ dres.mode = "rotate") =>
        /\ dres.status = "returned"
        /\ DOMAIN dres.cells = DOMAIN rcells
        /\ \A p \in DOMAIN rcells : (dres.cells[p] = None) <=> (rcells[p] = None)
        /\ \A c \in DerPalette : CountOf(dres.cells, c) = CountOf(rcells, c)

\* A rotation by an integer shift beyond the number of cells moved a color.
C12_Witness ==
    /\ dres /= DerPending /\ dres.mode = "rotate" /\ dres.status = "returned"
    /\ dres.rotate_shift /= NoShift
    /\ dres.rotate_shift[1] > Cardinality(Occupied(rcells))
    /\ Cardinality(Occupied(rcells)) >= 3
    /\ dres.cells /= rcells

\* C18: with rotate_shift None and n >= 2 occupied cells, the shift k is the
\* smallest k in [1, n) that minimises the number of ranks i whose color equals
\* the color at rank (i + k) mod n; the cell of rank i receives the color of
\* rank (i + k) mod n; same_cell_count is the number of occupied cells whose
\* slot color equals their top color.
C18_RotateShiftMinimal ==
    (/\ dres /= DerPending /\ dres.mode = "rotate"
     /\ dres.rotate_shift = NoShift
     /\ Cardinality(Occupied(rcells)) >= 2) =>
        LET n == Cardinality(Occupied(rcells))
            k == dres.shift
        IN  /\ k \in 1 .. (n - 1)
            /\ \A j \in 1 .. (n - 1) :
                   /\ SameAt(rcells, k) <= SameAt(rcells, j)
                   /\ (SameAt(rcells, j) = SameAt(rcells, k) => k <= j)
            /\ \A p \in Occupied(rcells) :
                   dres.cells[p] = ValAt(rcells, (RankOf(rcells, p) + k) % n)
            /\ dres.same_cell_count =
                   Cardinality({p \in Occupied(rcells) : dres.cells[p] = rcells[p]})

\* The search chose a shift above 1 that still leaves a match, and a larger
\* shift matches as often.
C18_Witness ==
    /\ dres /= DerPending /\ dres.mode = "rotate" /\ dres.rotate_shift = NoShift
    /\ dres.shift >= 2 /\ dres.same_cell_count >= 1
    /\ \E j \in (dres.shift + 1) .. (Cardinality(Occupied(rcells)) - 1) :
           SameAt(rcells, j) = SameAt(rcells, dres.shift)

(***************************************************************************)
(* The perimeter map as a state machine: a caller asks pos_to_side_lane    *)
(* for the side and lane of an index on a w x h board.                     *)
(***************************************************************************)
LaneW == 4
LaneH == 4
\* How far beyond the perimeter the indices asked for go.
LaneSlack == 2

InitLane ==
    /\ cfg \in [w : 1 .. LaneW, h : 1 .. LaneH]
    /\ \E pos \in (0 - LaneSlack) .. (2 * LaneW + 2 * LaneH + LaneSlack) :
           /\ pos < perimeter_len(cfg.w, cfg.h) + LaneSlack
           /\ last = [op |-> "pending", pos |-> pos]
    /\ top = <<>> /\ slots = <<>> /\ shooters = <<>>

Locate ==
    /\ last.op = "pending"
    /\ last' = [op |-> "pos_to_side_lane", pos |-> last.pos,
                result |-> pos_to_side_lane(last.pos, cfg.w, cfg.h)]
    /\ UNCHANGED <<top, slots, shooters, cfg, ordVars, rebVars, solVars>>

InitLaneSpec == InitLane /\ OrdIdle /\ RebIdle /\ SolIdle
NextLane == Locate
SpecLane == InitLaneSpec /\ [][NextLane]_vars

\* The (side, lane) pairs of a w x h board.
SideLanes(w, h) ==
    [side : {"top", "bottom"}, lane : 0 .. (w - 1)]
        \cup [side : {"right", "left"}, lane : 0 .. (h - 1)]

\* C13: pos_to_side_lane maps 0 .. 2w+2h-1 one-to-one onto the (side, lane)
\* pairs, clockwise from the top-left corner: w positions along the top with
\* x = 0..w-1, h down the right with y = 0..h-1, w along the bottom with
\* x = w-1..0, h up the left with y = h-1..0; every other position is rejected.
C13_PerimeterClockwise ==
    last.op = "pos_to_side_lane" =>
        LET w == cfg.w
            h == cfg.h
            pos == last.pos
            r == last.result
            L == 2 * w + 2 * h
            image == {pos_to_side_lane(p, w, h) : p \in 0 .. (L - 1)}
        IN  /\ (r.side = "error") <=> (pos \notin 0 .. (L - 1))
            /\ pos \in 0 .. (w - 1) => r = [side |-> "top", lane |-> pos]
            /\ pos \in w .. (w + h - 1) => r = [side |-> "right", lane |-> pos - w]
            /\ pos \in (w + h) .. (2 * w + h - 1) =>
                   r = [side |-> "bottom", lane |-> (2 * w + h - 1) - pos]
            /\ pos \in (2 * w + h) .. (L - 1) => r = [side |-> "left", lane |-> (L - 1) - pos]
            /\ image = SideLanes(w, h)
            /\ Cardinality(image) = L

\* The last position of the bottom side of a board at least two wide was asked for.
C13_Witness ==
    /\ last.op = "pos_to_side_lane"
    /\ cfg.w >= 2
    /\ last.result = [side |-> "bottom", lane |-> 0]

(***************************************************************************)
(* The simulator with a count of the ticks that went by without a shot     *)
(* although any_shot_possible held.                                        *)
(***************************************************************************)
InitTimed ==
    /\ top \in Grids(SimW, SimH, Colors)
    /\ slots \in {g \in Grids(SimW, SimH, Colors) : Occupied(g) = Occupied(top)}
    /\ shooters = <<>>
    /\ cfg \in Configs
    /\ last = [op |-> "level", ok |-> TRUE, shots |-> 0, dry |-> 0, waited |-> 0]

TimedTap(xy) ==
    LET r == apply_tap(top, slots, shooters, xy, cfg, SimW, SimH) IN
    /\ top' = r.top
    /\ slots' = r.slots
    /\ shooters' = r.shooters
    /\ last' = [op |-> "tap", ok |-> r.ok, shots |-> 0, dry |-> last.dry, waited |-> 0]
    /\ UNCHANGED <<cfg, ordVars, rebVars, solVars>>

TimedTapAny == \E xy \in TapInputs : TimedTap(xy)

\* A tick.  dry counts the ticks in a row that fired no shot, from a state in
\* which any_shot_possible held; waited is that count before a tick that fired.
TimedTick ==
    LET r == tick(top, slots, shooters, SimW, SimH, cfg) IN
    /\ top' = r.top
    /\ slots' = r.slots
    /\ shooters' = r.shooters
    /\ last' = [op |-> "tick", ok |-> ~r.raised, shots |-> r.shots,
                dry |-> IF r.shots > 0 THEN 0
                        ELSE IF any_shot_possible(slots, shooters, SimW, SimH)
                        THEN last.dry + 1 ELSE 0,
                waited |-> IF r.shots > 0 THEN last.dry ELSE 0]
    /\ UNCHANGED <<cfg, ordVars, rebVars, solVars>>

InitTimedSpec == InitTimed /\ OrdIdle /\ RebIdle /\ SolIdle
NextTimed == TimedTapAny \/ TimedTick
SpecTimed == InitTimedSpec /\ [][NextTimed]_vars

(***************************************************************************)
(* Plays on a board with an inner cell: the simulator with the list of the *)
(* slot cells its ticks removed, handed to verify_forward_remove_order     *)
(* once the slots are empty.                                               *)
(***************************************************************************)
PlayW == 3
PlayH == 3

PlayCells == Cells(PlayW, PlayH)

\* The mask of a grid: the occupied cells.
MaskOfGrid(grid, w, h) == [y \in 1 .. h |-> [x \in 1 .. w |-> grid[<<x - 1, y - 1>>] /= None]]

\* The cross around the inner cells: every cell but the corners.
CrossCells == {p \in PlayCells : p[1] \in 1 .. (PlayW - 2) \/ p[2] \in 1 .. (PlayH - 2)}

PlayConfigs ==
    [conveyor_capacity : 1 .. MaxCapacity, entrance_pos : {0}, move_then_fire : BOOLEAN]

\* A level: any slots grid.  The levels on the cross are played, with the top
\* blocks of mode "same"; the others have no top block, so nothing is tapped.
InitPlay ==
    /\ slots \in Grids(PlayW, PlayH, Colors)
    /\ top = IF Occupied(slots) = CrossCells THEN slots ELSE [p \in PlayCells |-> None]
    /\ shooters = <<>>
    /\ cfg \in PlayConfigs
    /\ last = [op |-> "level", ok |-> TRUE, shots |-> 0]
    /\ mask = MaskOfGrid(slots, PlayW, PlayH)
    /\ forder = <<>>
    /\ verdict = "none"
    /\ bwd = <<>>

PlayTap(xy) ==
    LET r == apply_tap(top, slots, shooters, xy, cfg, PlayW, PlayH) IN
    /\ r.ok
    /\ top' = r.top
    /\ slots' = r.slots
    /\ shooters' = r.shooters
    /\ last' = [op |-> "tap", ok |-> r.ok, shots |-> 0]
    /\ UNCHANGED <<cfg, ordVars, rebVars, solVars>>

PlayTapAny == \E xy \in PlayCells : PlayTap(xy)

\* The targets of the shots of a tick, in the order they were fired.
ShotCells(log) ==
    LET fired == SelectSeq(log, LAMBDA e : e.fired)
    IN  [i \in 1 .. Len(fired) |-> fired[i].tgt]

\* A tick; the cells it removed are appended to the removal order, and the
\* order is verified against the level's mask when the slots are empty.
PlayTick ==
    LET r == tick(top, slots, shooters, PlayW, PlayH, cfg) IN
    /\ verdict = "none"
    /\ top' = r.top
    /\ slots' = r.slots
    /\ shooters' = r.shooters
    /\ last' = [op |-> "tick", ok |-> ~r.raised, shots |-> r.shots]
    /\ forder' = forder \o ShotCells(r.log)
    /\ verdict' = IF is_win(r.slots) THEN verify_forward_remove_order(mask, forder')
                  ELSE verdict
    /\ UNCHANGED <<cfg, mask, bwd, rebVars, solVars>>

InitPlaySpec == InitPlay /\ RebIdle /\ SolIdle
NextPlay == PlayTapAny \/ PlayTick
SpecPlay == InitPlaySpec /\ [][NextPlay]_vars

(***************************************************************************)
(* Properties of the plays.                                                *)
(***************************************************************************)
\* The cells the simulator can hit on a slots grid: the targets of the lanes
\* of all perimeter positions.
PerimeterTargets(grid, w, h) ==
    {target_for_lane(pos_to_side_lane(pos, w, h).side, pos_to_side_lane(pos, w, h).lane,
                     row_col_extrema(grid, w, h)) :
        pos \in 0 .. (perimeter_len(w, h) - 1)} \ {<<>>}

\* C28: on every slots grid the cells is_exposed accepts, with the occupied
\* slot cells as the present set, are the targets of the simulator over the
\* perimeter positions; every cell a tick removes is exposed when it is
\* removed; and the cells removed in a winning play, in their order, are
\* accepted by verify_forward_remove_order on the mask of the initial slots.
C28_ExposedIsTargeted ==
    /\ [](\A p \in PlayCells :
            is_exposed(mask, Occupied(slots), p) <=> p \in PerimeterTargets(slots, PlayW, PlayH))
    /\ [][PlayTick =>
            LET r == tick(top, slots, shooters, PlayW, PlayH, cfg) IN
            \A i \in 1 .. Len(r.log) :
                r.log[i].fired => is_exposed(mask, Occupied(r.log[i].before), r.log[i].tgt)]_vars
    /\ [](is_win(slots) /\ last.op = "tick" =>
            /\ verdict = "ok"
            /\ Len(forder) = Cardinality(MaskCells(mask))
            /\ {forder[i] : i \in 1 .. Len(forder)} = MaskCells(mask))

\* A won play on the cross: the inner cell, not exposed at first, was removed
\* after a cell beside it, and the order of the removals was accepted.
C28_Witness ==
    /\ verdict = "ok"
    /\ MaskCells(mask) = CrossCells
    /\ Len(forder) = Cardinality(CrossCells)
    /\ ~is_exposed(mask, MaskCells(mask), <<1, 1>>)
    /\ \E i \in 2 .. Len(forder) : forder[i] = <<1, 1>>

\* C30: from a state in which any_shot_possible holds, a shot is fired within
\* the next 2w + 2h ticks, whatever taps come in between: there are never
\* 2w + 2h ticks in a row without a shot from such a state on, and as long as
\* no shot is fired any_shot_possible keeps holding.
C30_ShotWithinPerimeter ==
    /\ [](last.dry < perimeter_len(SimW, SimH))
    /\ [][(any_shot_possible(slots, shooters, SimW, SimH) /\ slots' = slots)
            => any_shot_possible(slots', shooters', SimW, SimH)]_vars

\* A shot that came after the shooter had gone most of the way round without
\* one, and left a shooter on the conveyor.
C30_Witness ==
    /\ last.op = "tick" /\ last.shots >= 1
    /\ last.waited >= perimeter_len(SimW, SimH) - 2
    /\ Len(shooters) >= 1

(***************************************************************************)
(* Properties of the search, against the plays of the game.                *)
(***************************************************************************)
\* A position of a play: the grids and the shooter list.
PlayState(t, s, shs) == [top |-> t, slots |-> s, shooters |-> shs]

\* The positions one action leads to from st: a tap of any occupied top cell
\* that apply_tap accepts, or a wait when allow_wait, each followed by a tick.
PlayMoves(st, lv) ==
    LET tapped == {apply_tap(st.top, st.slots, st.shooters, p, lv.cfg, lv.w, lv.h) :
                     p \in Occupied(st.top)}
        waited == IF lv.allow_wait THEN {st} ELSE {}
        before == {PlayState(n.top, n.slots, n.shooters) : n \in {m \in tapped : m.ok}}
                    \cup waited
    IN  {PlayState(r.top, r.slots, r.shooters) :
            r \in {tick(b.top, b.slots, b.shooters, lv.w, lv.h, lv.cfg) : b \in before}}

\* Some play of at most k actions from a position of F empties the slots.
RECURSIVE WinWithin(_, _, _)
WinWithin(F, k, lv) ==
    IF \E st \in F : Occupied(st.slots) = {} THEN TRUE
    ELSE IF k = 0 \/ F = {} THEN FALSE
    ELSE WinWithin(UNION {PlayMoves(st, lv) : st \in F}, k - 1, lv)

\* C26: when solve_level returns unsolved with reason search_exhausted, no
\* play of at most max_steps actions from the level empties the slots.
C26_ExhaustedMeansNoWin ==
    (sres.status = "returned" /\ sres.reason = "search_exhausted")
        => ~WinWithin({PlayState(lvl.top, lvl.slots, <<>>)}, lvl.max_steps, lvl)

\* A search that ended exhausted after it skipped a deadlock and met a state
\* again.
C26_Witness ==
    /\ sres.status = "returned" /\ sres.reason = "search_exhausted"
    /\ lvl.max_steps = SolMaxSteps
    /\ sres.expanded >= 3
    /\ \E st \in DOMAIN prev :
           is_deadlock(unflatten(st[2], lvl.w, lvl.h), StateShooters(st[3]), lvl.w, lvl.h, lvl.cfg)

\* C27: when solve_level returns solved with steps = s, some play of s
\* actions from the level empties the slots and no play of fewer actions does.
C27_SolvedIsShortest ==
    (sres.status = "returned" /\ sres.reason = "solved") =>
        /\ sres.steps >= 1
        /\ WinWithin({PlayState(lvl.top, lvl.slots, <<>>)}, sres.steps, lvl)
        /\ ~WinWithin({PlayState(lvl.top, lvl.slots, <<>>)}, sres.steps - 1, lvl)

\* A level solved in five actions or more, with waits among them.
C27_Witness ==
    /\ sres.status = "returned" /\ sres.reason = "solved"
    /\ sres.steps >= 5
    /\ \E i \in 1 .. Len(SolutionOf(sres)) : SolutionOf(sres)[i][1] = "wait"
    /\ \E i \in 1 .. Len(SolutionOf(sres)) : SolutionOf(sres)[i][1] = "tap"

====
